---- MODULE Spec2Model ----
(***************************************************************************)
(* State-machine model of the 589 scouting backend: the statistics         *)
(* aggregator (routes/statistics), the match routes (routes/matches) and   *)
(* the bulk event import (routes/tba), over the relational Record Store.   *)
(***************************************************************************)
EXTENDS Integers, Sequences, FiniteSets, TLC

(***************************************************************************)
(* Bounds of the model                                                     *)
(***************************************************************************)
\* request slots that may be in flight at the same time
MaxSlots == 2
\* requests started in one behaviour when they are served one at a time
MaxRequests == 2
\* requests started in one behaviour when their store operations interleave
MaxConcurrentRequests == 3
\* Record Store failures injected in one behaviour
MaxFailures == 1
\* the matches of the largest match set the fold is applied to
MaxFoldMatches == 6
Slots == 1..MaxSlots
TeamNumbers == {1, 2}
Regionals == {1, 2}

(***************************************************************************)
(* SQL NULL for integer and text columns                                   *)
(***************************************************************************)
NullInt == 0 - 1
\* parseInt of a path parameter that is not a number
NaN == 0 - 2
NullText == "NULL"
NoRow == [absent |-> TRUE]

(***************************************************************************)
(* Request bodies accepted by matchSchema (scouting observations)          *)
(***************************************************************************)
\* the Joi defaults of matchSchema: the value of every defaulted key that
\* the body does not carry
JoiDefaults ==
    [auto_taxi |-> FALSE, auto_m1 |-> 0, auto_m2 |-> 0, auto_m3 |-> 0,
     auto_m4 |-> 0, auto_m5 |-> 0, auto_s1 |-> 0, auto_s2 |-> 0,
     auto_s3 |-> 0, auto_r |-> 0,
     teleop_amp_attempts |-> 0, teleop_amp_scored |-> 0,
     teleop_speaker_attempts |-> 0, teleop_speaker_scored |-> 0,
     teleop_ground_intake |-> 0, teleop_source_intake |-> 0,
     endgame_trap_count |-> 0,
     robot_disabled |-> FALSE, played_defense |-> FALSE]

\* column defaults of the matches table (NULL where none is declared)
MatchColumnDefaults ==
    [starting_position |-> NullText,
     auto_taxi |-> FALSE, auto_m1 |-> 0, auto_m2 |-> 0, auto_m3 |-> 0,
     auto_m4 |-> 0, auto_m5 |-> 0, auto_s1 |-> 0, auto_s2 |-> 0,
     auto_s3 |-> 0, auto_r |-> 0,
     teleop_amp_attempts |-> 0, teleop_amp_scored |-> 0,
     teleop_speaker_attempts |-> 0, teleop_speaker_scored |-> 0,
     teleop_ground_intake |-> 0, teleop_source_intake |-> 0,
     endgame_climb |-> NullText, endgame_trap_count |-> 0,
     driver_rating |-> NullInt,
     robot_disabled |-> FALSE, played_defense |-> FALSE,
     updated_at |-> 0]

\* observation bodies (the optional keys a request may carry)
BodyBusy ==
    [starting_position |-> "Amp", auto_taxi |-> TRUE, auto_m1 |-> 2,
     auto_s1 |-> 1, auto_r |-> 1,
     teleop_amp_attempts |-> 2, teleop_amp_scored |-> 1,
     teleop_speaker_attempts |-> 1, teleop_speaker_scored |-> 2,
     teleop_ground_intake |-> 2,
     endgame_climb |-> "Single Climb", endgame_trap_count |-> 1,
     driver_rating |-> 4, played_defense |-> TRUE]

\* a body with no driver_rating (the column stays NULL) and with a speaker
\* note scored where no attempt was counted
BodyQuiet ==
    [starting_position |-> "Source", auto_m1 |-> 1,
     teleop_amp_attempts |-> 1, teleop_amp_scored |-> 1,
     teleop_speaker_scored |-> 1,
     teleop_source_intake |-> 1,
     endgame_climb |-> "Park", endgame_trap_count |-> 3,
     robot_disabled |-> TRUE]

\* a body matchSchema rejects: endgame_trap_count above max(3)
BodyInvalid == [endgame_trap_count |-> 4]

\* matchSchema.validate: the supplied keys, the Joi defaults for the rest
JoiValidate(body) ==
    [f \in DOMAIN body \cup DOMAIN JoiDefaults |->
        IF f \in DOMAIN body THEN body[f] ELSE JoiDefaults[f]]

\* the stored row of an insert: the payload, column defaults for the rest
InsertMatchRow(id, teamId, regional, matchNumber, value, ts) ==
    [f \in {"id", "team_id", "regional", "match_number"}
           \cup DOMAIN MatchColumnDefaults |->
        CASE f = "id" -> id
          [] f = "team_id" -> teamId
          [] f = "regional" -> regional
          [] f = "match_number" -> matchNumber
          [] f \in DOMAIN value -> value[f]
          [] f = "updated_at" -> ts
          [] OTHER -> MatchColumnDefaults[f]]

(***************************************************************************)
(* JavaScript numbers of the fold, kept as exact fractions <<num, den>>,   *)
(* and their cast to the NUMERIC(p,2) columns of the aggregate tables      *)
(***************************************************************************)
\* count / total * 100
TimesHundred(count, total) == <<count * 100, total>>

\* Math.min(q, 100)
MathMin100(q) == IF q[1] > 100 * q[2] THEN <<100, 1>> ELSE q

\* the cast of a number to NUMERIC(p,2): hundredths, rounded half up
ToNumeric2(q) == (200 * q[1] + q[2]) \div (2 * q[2])

\* largest hundredths a DECIMAL(5,2) / DECIMAL(3,2) column holds
MaxDecimal52 == 99999
MaxDecimal32 == 999

\* value || 0
OrZero(v) == IF v = NullInt THEN 0 ELSE v

\* this mutant of the fold keeps the value of one match only
SumOfOne(ms, f) ==
    IF ms = {} THEN 0 ELSE OrZero((CHOOSE x \in ms : TRUE)[f])

RECURSIVE SumOf(_, _)
\* the += of one counter over the forEach of the match array
SumOf(ms, f) ==
    IF ms = {} THEN 0
    ELSE LET m == CHOOSE x \in ms : TRUE
         IN OrZero(m[f]) + SumOf(ms \ {m}, f)

\* the ++ of one counter over the forEach: matches whose field has the value
\* this mutant counts every match in every bucket
CountOfEvery(ms, f, v) == Cardinality(ms)

\* if (match[f] === v) counter++
CountOf(ms, f, v) == Cardinality({m \in ms : m[f] = v})

\* `${a}/${b}`
Fraction(a, b) == ToString(a) \o "/" \o ToString(b)

\* counters of calculateStatsFromMatches after the forEach
Counters(ms) ==
    [pregame_amp |-> CountOf(ms, "starting_position", "Amp"),
     pregame_middle |-> CountOf(ms, "starting_position", "Middle"),
     pregame_source |-> CountOf(ms, "starting_position", "Source"),
     auto_taxi |-> CountOf(ms, "auto_taxi", TRUE),
     auto_m1 |-> SumOf(ms, "auto_m1"), auto_m2 |-> SumOf(ms, "auto_m2"),
     auto_m3 |-> SumOf(ms, "auto_m3"), auto_m4 |-> SumOf(ms, "auto_m4"),
     auto_m5 |-> SumOf(ms, "auto_m5"), auto_s1 |-> SumOf(ms, "auto_s1"),
     auto_s2 |-> SumOf(ms, "auto_s2"), auto_s3 |-> SumOf(ms, "auto_s3"),
     auto_r |-> SumOf(ms, "auto_r"),
     amp_attempts |-> SumOf(ms, "teleop_amp_attempts"),
     amp_scored |-> SumOf(ms, "teleop_amp_scored"),
     speaker_attempts |-> SumOf(ms, "teleop_speaker_attempts"),
     speaker_scored |-> SumOf(ms, "teleop_speaker_scored"),
     ground |-> SumOf(ms, "teleop_ground_intake"),
     source |-> SumOf(ms, "teleop_source_intake"),
     climb_nothing |-> CountOf(ms, "endgame_climb", "Nothing"),
     climb_park |-> CountOf(ms, "endgame_climb", "Park"),
     climb_single |-> CountOf(ms, "endgame_climb", "Single Climb"),
     climb_double |-> CountOf(ms, "endgame_climb", "Double Climb"),
     climb_triple |-> CountOf(ms, "endgame_climb", "Triple Climb"),
     trap_zero |-> Cardinality({m \in ms : OrZero(m.endgame_trap_count) = 0}),
     trap_one |-> Cardinality({m \in ms : OrZero(m.endgame_trap_count) = 1}),
     trap_two |-> Cardinality({m \in ms : OrZero(m.endgame_trap_count) = 2}),
     trap_three |-> Cardinality({m \in ms : OrZero(m.endgame_trap_count) = 3}),
     driver_total |-> SumOf(ms, "driver_rating"),
     disabled |-> CountOf(ms, "robot_disabled", TRUE),
     defense |-> CountOf(ms, "played_defense", TRUE)]

\* this mutant leaves the Math.min out: (count / totalMatches) * 100
UnclampedPercent(count, total) == TimesHundred(count, total)

\* Math.min((count / totalMatches) * 100, 100) of the phase-A positions
ClampedPercent(count, total) == MathMin100(TimesHundred(count, total))

\* this mutant clamps the accuracy ratio as the phase-A percentages are
AccuracyPercentClamped(scored, attempts) ==
    IF attempts > 0 THEN MathMin100(TimesHundred(scored, attempts)) ELSE <<0, 1>>

\* attempts > 0 ? (scored / attempts) * 100 : 0
AccuracyPercent(scored, attempts) ==
    IF attempts > 0 THEN TimesHundred(scored, attempts) ELSE <<0, 1>>

\* stats.percentages of calculateStatsFromMatches
StatsPercentages(c, t) ==
    [pregame_amp_percent |-> TimesHundred(c.pregame_amp, t),
     pregame_middle_percent |-> TimesHundred(c.pregame_middle, t),
     pregame_source_percent |-> TimesHundred(c.pregame_source, t),
     auto_taxi_percent |-> TimesHundred(c.auto_taxi, t),
     auto_m1_percent |-> ClampedPercent(c.auto_m1, t),
     auto_m2_percent |-> ClampedPercent(c.auto_m2, t),
     auto_m3_percent |-> ClampedPercent(c.auto_m3, t),
     auto_m4_percent |-> ClampedPercent(c.auto_m4, t),
     auto_m5_percent |-> ClampedPercent(c.auto_m5, t),
     auto_s1_percent |-> ClampedPercent(c.auto_s1, t),
     auto_s2_percent |-> ClampedPercent(c.auto_s2, t),
     auto_s3_percent |-> ClampedPercent(c.auto_s3, t),
     auto_r_percent |-> ClampedPercent(c.auto_r, t),
     teleop_amp_percent |-> AccuracyPercent(c.amp_scored, c.amp_attempts),
     teleop_speaker_percent |->
         AccuracyPercent(c.speaker_scored, c.speaker_attempts),
     teleop_ground_intake_percent |-> TimesHundred(c.ground, t),
     teleop_source_intake_percent |-> TimesHundred(c.source, t),
     endgame_nothing_percent |-> TimesHundred(c.climb_nothing, t),
     endgame_park_percent |-> TimesHundred(c.climb_park, t),
     endgame_single_climb_percent |-> TimesHundred(c.climb_single, t),
     endgame_double_climb_percent |-> TimesHundred(c.climb_double, t),
     endgame_triple_climb_percent |-> TimesHundred(c.climb_triple, t),
     endgame_0_trap_percent |-> TimesHundred(c.trap_zero, t),
     endgame_1_trap_percent |-> TimesHundred(c.trap_one, t),
     endgame_2_trap_percent |-> TimesHundred(c.trap_two, t),
     endgame_3_trap_percent |-> TimesHundred(c.trap_three, t),
     postgame_driver_rating_avg |-> <<c.driver_total, t>>,
     postgame_disabled_percent |-> TimesHundred(c.disabled, t),
     postgame_defense_percent |-> TimesHundred(c.defense, t)]

\* stats.fractions of calculateStatsFromMatches
StatsFractions(c, t) ==
    [pregame_amp_fraction |-> Fraction(c.pregame_amp, t),
     pregame_middle_fraction |-> Fraction(c.pregame_middle, t),
     pregame_source_fraction |-> Fraction(c.pregame_source, t),
     pregame_total |-> t,
     auto_taxi_fraction |-> Fraction(c.auto_taxi, t),
     auto_m1_fraction |-> Fraction(c.auto_m1, t),
     auto_m2_fraction |-> Fraction(c.auto_m2, t),
     auto_m3_fraction |-> Fraction(c.auto_m3, t),
     auto_m4_fraction |-> Fraction(c.auto_m4, t),
     auto_m5_fraction |-> Fraction(c.auto_m5, t),
     auto_s1_fraction |-> Fraction(c.auto_s1, t),
     auto_s2_fraction |-> Fraction(c.auto_s2, t),
     auto_s3_fraction |-> Fraction(c.auto_s3, t),
     auto_r_fraction |-> Fraction(c.auto_r, t),
     auto_total |-> c.auto_m1 + c.auto_m2 + c.auto_m3 + c.auto_m4 + c.auto_m5
                    + c.auto_s1 + c.auto_s2 + c.auto_s3 + c.auto_r,
     teleop_amp_fraction |-> Fraction(c.amp_scored, c.amp_attempts),
     teleop_speaker_fraction |-> Fraction(c.speaker_scored, c.speaker_attempts),
     teleop_ground_intake_fraction |-> Fraction(c.ground, t),
     teleop_source_intake_fraction |-> Fraction(c.source, t),
     teleop_amp_total |-> c.amp_scored,
     teleop_intake_total |-> c.ground + c.source,
     teleop_speaker_total |-> c.speaker_scored,
     endgame_nothing_fraction |-> Fraction(c.climb_nothing, t),
     endgame_park_fraction |-> Fraction(c.climb_park, t),
     endgame_single_climb_fraction |-> Fraction(c.climb_single, t),
     endgame_double_climb_fraction |-> Fraction(c.climb_double, t),
     endgame_triple_climb_fraction |-> Fraction(c.climb_triple, t),
     endgame_0_trap_fraction |-> Fraction(c.trap_zero, t),
     endgame_1_trap_fraction |-> Fraction(c.trap_one, t),
     endgame_2_trap_fraction |-> Fraction(c.trap_two, t),
     endgame_3_trap_fraction |-> Fraction(c.trap_three, t),
     endgame_total |-> t,
     postgame_disabled_fraction |-> Fraction(c.disabled, t),
     postgame_defense_fraction |-> Fraction(c.defense, t),
     postgame_total |-> t]

\* this mutant of the scores leaves the endgame score out of overall_score
StatsScoresWithoutEndgame(c) ==
    LET auto == (c.auto_m1 + c.auto_m2 + c.auto_m3 + c.auto_m4 + c.auto_m5) * 2
                + (c.auto_s1 + c.auto_s2 + c.auto_s3) * 5
                + c.auto_r * 3 + (c.auto_taxi * 2)
        teleop == c.amp_scored * 1 + c.speaker_scored * 2
        endgame == (c.climb_single * 3) + (c.climb_double * 10)
                   + (c.climb_triple * 20) + (c.trap_one * 5)
                   + (c.trap_two * 10) + (c.trap_three * 15)
    IN [auto_score |-> auto, teleop_score |-> teleop,
        endgame_score |-> endgame, overall_score |-> auto + teleop]

\* stats.scores of calculateStatsFromMatches (overall_score is the getter)
StatsScores(c) ==
    LET auto == (c.auto_m1 + c.auto_m2 + c.auto_m3 + c.auto_m4 + c.auto_m5) * 2
                + (c.auto_s1 + c.auto_s2 + c.auto_s3) * 5
                + c.auto_r * 3 + (c.auto_taxi * 2)
        teleop == c.amp_scored * 1 + c.speaker_scored * 2
        endgame == (c.climb_single * 3) + (c.climb_double * 10)
                   + (c.climb_triple * 20) + (c.trap_one * 5)
                   + (c.trap_two * 10) + (c.trap_three * 15)
    IN [auto_score |-> auto, teleop_score |-> teleop,
        endgame_score |-> endgame,
        overall_score |-> auto + teleop + endgame]

calculateStatsFromMatches(ms, totalMatches) ==
    LET c == Counters(ms)
    IN [percentages |-> StatsPercentages(c, totalMatches),
        fractions |-> StatsFractions(c, totalMatches),
        scores |-> StatsScores(c)]

(***************************************************************************)
(* The aggregate tables: a table is a function from its unique key         *)
(* <<team_id, regional_id>> to the row stored under it                     *)
(***************************************************************************)
RowOf(table, key) == IF key \in DOMAIN table THEN table[key] ELSE NoRow

IsRow(row) == "absent" \notin DOMAIN row

\* this mutant of the keyed write stores the row under every key of the table
PutUnderEveryKey(table, key, row) ==
    [k \in DOMAIN table \cup {key} |-> row]

Put(table, key, row) ==
    [k \in DOMAIN table \cup {key} |-> IF k = key THEN row ELSE table[k]]

\* column defaults of team_stats_percentage
PercentageDefaults ==
    [pregame_amp_percent |-> 0, pregame_middle_percent |-> 0,
     pregame_source_percent |-> 0, auto_taxi_percent |-> 0,
     auto_m1_percent |-> 0, auto_m2_percent |-> 0, auto_m3_percent |-> 0,
     auto_m4_percent |-> 0, auto_m5_percent |-> 0, auto_s1_percent |-> 0,
     auto_s2_percent |-> 0, auto_s3_percent |-> 0, auto_r_percent |-> 0,
     teleop_amp_percent |-> 0, teleop_speaker_percent |-> 0,
     teleop_ground_intake_percent |-> 0, teleop_source_intake_percent |-> 0,
     endgame_nothing_percent |-> 0, endgame_park_percent |-> 0,
     endgame_single_climb_percent |-> 0, endgame_double_climb_percent |-> 0,
     endgame_triple_climb_percent |-> 0,
     endgame_0_trap_percent |-> 0, endgame_1_trap_percent |-> 0,
     endgame_2_trap_percent |-> 0, endgame_3_trap_percent |-> 0,
     postgame_driver_rating_avg |-> 0, postgame_disabled_percent |-> 0,
     postgame_defense_percent |-> 0, last_calculated |-> 0]

\* column defaults of team_stats_fraction
FractionDefaults ==
    [pregame_amp_fraction |-> "0/0", pregame_middle_fraction |-> "0/0",
     pregame_source_fraction |-> "0/0", pregame_total |-> 0,
     auto_taxi_fraction |-> "0/0", auto_m1_fraction |-> "0/0",
     auto_m2_fraction |-> "0/0", auto_m3_fraction |-> "0/0",
     auto_m4_fraction |-> "0/0", auto_m5_fraction |-> "0/0",
     auto_s1_fraction |-> "0/0", auto_s2_fraction |-> "0/0",
     auto_s3_fraction |-> "0/0", auto_r_fraction |-> "0/0",
     auto_total |-> 0,
     teleop_amp_fraction |-> "0/0", teleop_speaker_fraction |-> "0/0",
     teleop_ground_intake_fraction |-> "0/0",
     teleop_source_intake_fraction |-> "0/0",
     teleop_amp_total |-> 0, teleop_intake_total |-> 0,
     teleop_speaker_total |-> 0,
     endgame_nothing_fraction |-> "0/0", endgame_park_fraction |-> "0/0",
     endgame_single_climb_fraction |-> "0/0",
     endgame_double_climb_fraction |-> "0/0",
     endgame_triple_climb_fraction |-> "0/0",
     endgame_0_trap_fraction |-> "0/0", endgame_1_trap_fraction |-> "0/0",
     endgame_2_trap_fraction |-> "0/0", endgame_3_trap_fraction |-> "0/0",
     endgame_total |-> 0,
     postgame_disabled_fraction |-> "0/0", postgame_defense_fraction |-> "0/0",
     postgame_total |-> 0, last_calculated |-> 0]

\* column defaults of team_rankings (the rank columns have none: NULL)
RankingDefaults ==
    [overall_rank |-> NullInt, auto_rank |-> NullInt,
     teleop_rank |-> NullInt, endgame_rank |-> NullInt,
     overall_score |-> 0, auto_score |-> 0, teleop_score |-> 0,
     endgame_score |-> 0, matches_played |-> 0, last_calculated |-> 0]

\* this mutant of the upsert keeps a conflicting row as it is (DO NOTHING)
UpsertRowKeepExisting(old, defaults, payload) ==
    IF IsRow(old) THEN old
    ELSE [f \in DOMAIN defaults |->
             IF f \in DOMAIN payload THEN payload[f] ELSE defaults[f]]

\* upsert(payload, { onConflict: key }): the payload's columns are written;
\* the other columns keep the stored value, or take the column default on insert
UpsertRow(old, defaults, payload) ==
    [f \in DOMAIN defaults |->
        IF f \in DOMAIN payload THEN payload[f]
        ELSE IF IsRow(old) THEN old[f] ELSE defaults[f]]

\* { ...fields, last_calculated: new Date().toISOString() }
WithTimestamp(fields, ts) ==
    [f \in DOMAIN fields \cup {"last_calculated"} |->
        IF f = "last_calculated" THEN ts ELSE fields[f]]

\* the percentages payload as the NUMERIC columns receive it
PercentagePayload(percentages) ==
    [f \in DOMAIN percentages |-> ToNumeric2(percentages[f])]

\* a NUMERIC(p,2) column rejects a value beyond its precision (22003)
NumericFits(payload) ==
    \A f \in DOMAIN payload :
        payload[f] <= (IF f = "postgame_driver_rating_avg"
                       THEN MaxDecimal32 ELSE MaxDecimal52)

\* the ranking payload of updateTeamRankings
RankingPayload(scores, totalMatches) ==
    [overall_score |-> scores.overall_score, auto_score |-> scores.auto_score,
     teleop_score |-> scores.teleop_score,
     endgame_score |-> scores.endgame_score,
     matches_played |-> totalMatches]

\* the payloads of initializeEmptyStatistics, per table
EmptyPayload(tableName) ==
    IF tableName = "team_rankings" THEN [matches_played |-> 0]
    ELSE [f \in {} |-> 0]

(***************************************************************************)
(* State                                                                   *)
(***************************************************************************)
VARIABLES
    teams,                  \* table teams: rows [id, team_number, regional]
    teamSeq,                \* last value of the SERIAL sequence of teams.id
    matches,                \* table matches: the set of its rows
    matchSeq,               \* last value of the SERIAL sequence of matches.id
    team_stats_percentage,  \* aggregate tables, keyed <<team_id, regional_id>>
    team_stats_fraction,
    team_rankings,
    team_statistics,        \* the auto/taxi_rate row of each <<team_id, regional>>
    now,                    \* the wall clock read by new Date()
    req,                    \* the request each slot is serving and its locals
    failures,               \* Record Store failures so far
    started,                \* requests started so far
    serial,                 \* whether the requests arrive one at a time (each
                            \* after the response to the one before)
    env,                    \* process.env: the configured 589_API_KEY ("" when
                            \* it is not set)
    seasons,                \* table seasons: is_active of each season_year
    runs,                   \* history: per pair, the last two finished recomputes
                            \* since the pair's match set last changed
    synced                  \* history: pairs whose latest successful recompute
                            \* read the match set as it is now

vars == <<teams, teamSeq, matches, matchSeq, team_stats_percentage,
          team_stats_fraction, team_rankings, team_statistics, now, req,
          failures, started, serial, env, seasons, runs, synced>>

aggregates == <<team_stats_percentage, team_stats_fraction, team_rankings>>
recordTables == <<teams, teamSeq, matches, matchSeq>>
\* what the statistics, match and import routes leave as it is
elsewhere == <<serial, env, seasons>>

\* teams registered under each regional (team_regional_participation),
\* in retrieval order
team_regional_participation == [r \in Regionals |-> IF r = 1 THEN <<1, 2>> ELSE <<1>>]

\* the message of a Record Store error
StoreError == "store unavailable"

\* the message of the store for a NaN compared with an integer column (22P02)
InvalidSyntax == "invalid input syntax for type integer"

NoResponse == [status |-> 0]

(***************************************************************************)
(* The API key check of the write requests                                 *)
(***************************************************************************)
\* the headers that carry a key; a header that was not sent is empty, and the
\* authorization header is the sequence of the pieces of its text
NoHeaders == [xApiKey |-> "", authorization |-> <<>>]

\* the text the pieces make
RECURSIVE Joined(_)
Joined(pieces) ==
    IF pieces = <<>> THEN "" ELSE Head(pieces) \o Joined(Tail(pieces))

\* .replace('Bearer ', ''): the first 'Bearer ' of the text is taken out
WithoutBearer(pieces) ==
    LET hits == {i \in DOMAIN pieces : pieces[i] = "Bearer "}
    IN IF hits = {} THEN pieces
       ELSE LET first == CHOOSE i \in hits : \A j \in hits : i <= j
            IN SubSeq(pieces, 1, first - 1)
                   \o SubSeq(pieces, first + 1, Len(pieces))

\* req.headers['x-api-key'] || req.headers['authorization']?.replace(...)
ApiKeyOf(headers) ==
    IF headers.xApiKey # "" THEN headers.xApiKey
    ELSE Joined(WithoutBearer(headers.authorization))

UnauthorizedResponse(msg) == [status |-> 401, success |-> FALSE, message |-> msg]

\* the check that lets every request through
validateNothing(method, headers, validApiKey) == NoResponse

\* validateApiKeyForWrites: the response of the check, or NoResponse when it
\* calls next(); validApiKey is process.env['589_API_KEY'], empty when unset
validateApiKeyForWrites(method, headers, validApiKey) ==
    LET apiKey == ApiKeyOf(headers)
    IN IF method = "GET" THEN NoResponse
       ELSE IF apiKey = ""
       THEN UnauthorizedResponse("API key required for write operations. Include x-api-key header or Authorization: Bearer <key>")
       ELSE IF validApiKey = ""
       THEN [status |-> 500, success |-> FALSE,
             message |-> "Server configuration error: API key not configured"]
       ELSE IF apiKey # validApiKey
       THEN UnauthorizedResponse("Invalid API key")
       ELSE NoResponse

Idle ==
    [kind |-> "idle", pc |-> "idle", team |-> 0, regional |-> 0,
     snap |-> {}, ts |-> 0, todo |-> {}, teams |-> <<>>, idx |-> 0,
     results |-> <<>>, value |-> [f \in {} |-> 0], matchId |-> 0,
     matchNumber |-> 0, teamNumber |-> 0, response |-> NoResponse,
     \* history of the request
     changed |-> {}, aggregated |-> {}, storeFailed |-> FALSE,
     fresh |-> FALSE, wrote |-> 0, threw |-> <<>>, attempts |-> <<>>,
     queried |-> <<>>, before |-> <<>>, upserts |-> <<>>,
     supplied |-> {}, prior |-> NoRow, year |-> 0, stored |-> <<>>,
     method |-> "", headers |-> NoHeaders]

\* a match row as the scouting app may have left it in the store
SeedMatch == InsertMatchRow(1, 1, 1, 1, JoiValidate(BodyBusy), 0)

\* the aggregate rows calculateTeamStatistics has stored for the seed match
SeedStats == calculateStatsFromMatches({SeedMatch}, 1)
SeedAggregates ==
    [percentage |-> Put(<<>>, <<1, 1>>, UpsertRow(NoRow, PercentageDefaults,
         WithTimestamp(PercentagePayload(SeedStats.percentages), 0))),
     fraction |-> Put(<<>>, <<1, 1>>, UpsertRow(NoRow, FractionDefaults,
         WithTimestamp(SeedStats.fractions, 0))),
     ranking |-> Put(<<>>, <<1, 1>>, UpsertRow(NoRow, RankingDefaults,
         WithTimestamp(RankingPayload(SeedStats.scores, 1), 0)))]

\* the aggregate rows calculateTeamStatistics stored for team 1 before the seed
\* match was imported (initializeEmptyStatistics)
EmptyAggregates ==
    [percentage |-> Put(<<>>, <<1, 1>>, UpsertRow(NoRow, PercentageDefaults,
         WithTimestamp(EmptyPayload("team_stats_percentage"), 0))),
     fraction |-> Put(<<>>, <<1, 1>>, UpsertRow(NoRow, FractionDefaults,
         WithTimestamp(EmptyPayload("team_stats_fraction"), 0))),
     ranking |-> Put(<<>>, <<1, 1>>, UpsertRow(NoRow, RankingDefaults,
         WithTimestamp(EmptyPayload("team_rankings"), 0)))]

\* the store when the server starts: empty, or holding one imported match of
\* team 1 with no aggregates, with the aggregates computed from it, or with
\* the aggregates computed before it was imported
InitStore ==
    /\ teams = {[id |-> 1, team_number |-> 1, regional |-> 1]}
    /\ teamSeq = 1
    /\ matchSeq = 1
    /\ \/ /\ matches = {}
          /\ team_stats_percentage = <<>>
          /\ team_stats_fraction = <<>>
          /\ team_rankings = <<>>
       \/ /\ matches = {SeedMatch}
          /\ team_stats_percentage = <<>>
          /\ team_stats_fraction = <<>>
          /\ team_rankings = <<>>
       \/ /\ matches = {SeedMatch}
          /\ team_stats_percentage = SeedAggregates.percentage
          /\ team_stats_fraction = SeedAggregates.fraction
          /\ team_rankings = SeedAggregates.ranking
       \/ /\ matches = {SeedMatch}
          /\ team_stats_percentage = EmptyAggregates.percentage
          /\ team_stats_fraction = EmptyAggregates.fraction
          /\ team_rankings = EmptyAggregates.ranking
    /\ team_statistics = <<>>
    /\ now = 0
    /\ req = [s \in Slots |-> Idle]
    /\ failures = 0
    /\ started = 0
    /\ runs = <<>>
    /\ synced = {}

\* the key in the server's .env file
ConfiguredKey == "k589"

\* the seasons table as the schema script leaves it: 2025, active
SeedSeasons == (2025 :> [is_active |-> TRUE])

\* the server as deployed: the API key configured, the seasons as seeded
InitDeployed == env = ConfiguredKey /\ seasons = SeedSeasons

Init == InitStore /\ serial = TRUE /\ InitDeployed

InitConcurrent == InitStore /\ serial = FALSE /\ InitDeployed

\* .eq('team_id', teamId).eq('regional_id', regionalId)
PairMatches(ms, teamId, regionalId) ==
    {m \in ms : m.team_id = teamId /\ m.regional = regionalId}

(***************************************************************************)
(* History bookkeeping of the recomputes                                   *)
(***************************************************************************)
StripTimestamp(row) ==
    IF IsRow(row) THEN [f \in DOMAIN row \ {"last_calculated"} |-> row[f]]
    ELSE row

\* the three aggregate rows of a pair, without their timestamps
RowsOf(pct, frac, rank, key) ==
    [percentage |-> StripTimestamp(RowOf(pct, key)),
     fraction |-> StripTimestamp(RowOf(frac, key)),
     ranking |-> StripTimestamp(RowOf(rank, key))]

RunsOf(key) == IF key \in DOMAIN runs THEN runs[key] ELSE <<>>

LastTwo(seq) == IF Len(seq) > 2 THEN Tail(seq) ELSE seq

\* a match write on these pairs: their recompute history starts over, and the
\* recomputes in flight on them hold an outdated snapshot
Outdated(r, keys) ==
    IF <<r.team, r.regional>> \in keys THEN [r EXCEPT !.fresh = FALSE] ELSE r

MatchSetChanged(keys) ==
    /\ runs' = [k \in DOMAIN runs |-> IF k \in keys THEN <<>> ELSE runs[k]]
    /\ synced' = synced \ keys

(***************************************************************************)
(* routes/statistics: calculateTeamStatistics and its two routes           *)
(***************************************************************************)
\* this mutant adds a fourth upsert, on the matches table
AllTablesAndMatches ==
    {"team_stats_percentage", "team_stats_fraction", "team_rankings", "matches"}

\* the tables of the three upserts of initializeEmptyStatistics
AllTables == {"team_stats_percentage", "team_stats_fraction", "team_rankings"}

\* res.json of POST /calculate/:teamId/:regionalId
CalculateResponse == [status |-> 200, success |-> TRUE]

\* errorHandler: an error thrown by a handler is answered 500 with its message
ErrorResponse(msg) == [status |-> 500, success |-> FALSE, message |-> msg]

\* the loop of POST /calculate-all: the next team, or res.json after the last
NextTeam(r) ==
    IF r.idx < Len(r.teams)
    THEN [r EXCEPT !.idx = r.idx + 1, !.team = r.teams[r.idx + 1],
                   !.pc = "query", !.snap = {}, !.todo = {}, !.wrote = 0,
                   !.fresh = FALSE, !.storeFailed = FALSE, !.upserts = <<>>]
    ELSE [r EXCEPT !.pc = "done",
                   !.response = [status |-> 200, success |-> TRUE,
                                 results |-> r.results]]

\* calculateTeamStatistics returned: what its caller does next
AfterStatsReturn(r) ==
    IF r.kind = "calculate"
    THEN [r EXCEPT !.pc = "done", !.response = CalculateResponse]
    ELSE NextTeam([r EXCEPT !.results =
             Append(r.results, [team_id |-> r.team, status |-> "success"])])

\* this mutant of the catch block lets the first failure end the batch
AfterStatsThrowAbort(r, msg) ==
    [r EXCEPT !.pc = "done", !.response = ErrorResponse(msg)]

\* calculateTeamStatistics threw: what its caller does next
AfterStatsThrow(r, msg) ==
    IF r.kind = "calculate"
    THEN [r EXCEPT !.pc = "done", !.response = ErrorResponse(msg)]
    ELSE NextTeam([r EXCEPT
             !.results = Append(r.results, [team_id |-> r.team,
                                            status |-> "error", error |-> msg])])

\* the end of one run of calculateTeamStatistics, recorded in the history
StatsEnds(s, r, ok, msg) ==
    LET key == <<r.team, r.regional>>
        run == [ok |-> ok, empty |-> r.snap = {}, wrote |-> r.wrote,
                silent |-> r.storeFailed,
                rows |-> RowsOf(team_stats_percentage', team_stats_fraction',
                                team_rankings', key)]
    IN /\ runs' = Put(runs, key, LastTwo(Append(RunsOf(key), run)))
       /\ synced' = IF ok /\ r.fresh THEN synced \cup {key} ELSE synced
       /\ req' = [req EXCEPT ![s] =
             IF ok THEN AfterStatsReturn(r)
             ELSE AfterStatsThrow([r EXCEPT !.threw = Append(r.threw,
                                      [team_id |-> r.team, error |-> msg])], msg)]

\* one upsert reaches the store and is applied to the table it names; the
\* other tables are left as they are
ApplyUpsert(tableName, key, payload) ==
    /\ team_stats_percentage' =
         IF tableName = "team_stats_percentage"
         THEN Put(team_stats_percentage, key,
                  UpsertRow(RowOf(team_stats_percentage, key),
                            PercentageDefaults, payload))
         ELSE team_stats_percentage
    /\ team_stats_fraction' =
         IF tableName = "team_stats_fraction"
         THEN Put(team_stats_fraction, key,
                  UpsertRow(RowOf(team_stats_fraction, key),
                            FractionDefaults, payload))
         ELSE team_stats_fraction
    /\ team_rankings' =
         IF tableName = "team_rankings"
         THEN Put(team_rankings, key,
                  UpsertRow(RowOf(team_rankings, key), RankingDefaults, payload))
         ELSE team_rankings
    /\ matches' =
         IF tableName = "matches"
         THEN matches \cup {InsertMatchRow(matchSeq + 1, key[1], key[2],
                                           NullInt, payload, now)}
         ELSE matches

\* a slot is serving a request until it has responded; the response stays in
\* the slot until the next request takes it
InFlight(s) == req[s].pc \notin {"idle", "done"}

\* a request arrives: the free slot of lowest number takes it (the slots are
\* interchangeable), and the clock has advanced since the request before
Arrives(s) ==
    /\ ~InFlight(s)
    /\ \A o \in Slots : o < s => InFlight(o)
    /\ serial => \A o \in Slots : ~InFlight(o)
    /\ started < (IF serial THEN MaxRequests ELSE MaxConcurrentRequests)
    /\ started' = started + 1
    /\ UNCHANGED elsewhere
    /\ now' = now + 1

\* POST /calculate/:teamId/:regionalId is received
StartCalculate(s, teamId, regionalId) ==
    /\ Arrives(s)
    /\ req' = [req EXCEPT ![s] = [Idle EXCEPT !.kind = "calculate",
                  !.pc = "query", !.team = teamId, !.regional = regionalId]]
    /\ UNCHANGED <<recordTables, aggregates, team_statistics, failures,
                   runs, synced>>

\* POST /calculate-all/:regionalId is received
StartCalculateAll(s, regionalId) ==
    /\ Arrives(s)
    /\ req' = [req EXCEPT ![s] = [Idle EXCEPT !.kind = "calculateAll",
                  !.pc = "list", !.regional = regionalId]]
    /\ UNCHANGED <<recordTables, aggregates, team_statistics, failures,
                   runs, synced>>

\* the query of team_regional_participation, and the throw on its error
ListTeams(s) ==
    /\ req[s].pc = "list"
    /\ \/ /\ req' = [req EXCEPT ![s] =
                NextTeam([req[s] EXCEPT
                    !.teams = team_regional_participation[req[s].regional]])]
          /\ UNCHANGED failures
       \/ /\ failures < MaxFailures
          /\ failures' = failures + 1
          /\ req' = [req EXCEPT ![s] = [req[s] EXCEPT !.pc = "done",
                !.storeFailed = TRUE,
                !.response = ErrorResponse("Database error: " \o StoreError)]]
    /\ UNCHANGED <<recordTables, aggregates, team_statistics, now, started, elsewhere,
                   runs, synced>>

\* calculateTeamStatistics: the match query, and the branch on its result
QueryMatches(s) ==
    /\ req[s].pc = "query"
    /\ UNCHANGED <<recordTables, aggregates, team_statistics, now, started, elsewhere>>
    /\ LET r == [req[s] EXCEPT !.attempts = Append(req[s].attempts, req[s].team),
                                !.queried = Append(req[s].queried, "matches")]
           ms == PairMatches(matches, r.team, r.regional)
       IN \/ /\ r.team # NaN
             /\ req' = [req EXCEPT ![s] =
                   IF ms = {}
                   THEN [r EXCEPT !.pc = "init", !.snap = {}, !.todo = AllTables,
                                  !.ts = now, !.fresh = TRUE]
                   ELSE [r EXCEPT !.pc = "upPct", !.snap = ms, !.fresh = TRUE]]
             /\ UNCHANGED <<failures, runs, synced>>
          \/ /\ r.team = NaN \/ failures < MaxFailures
             /\ failures' = IF r.team = NaN THEN failures ELSE failures + 1
             /\ StatsEnds(s, [r EXCEPT !.storeFailed = TRUE], FALSE,
                   "Match query error: "
                   \o (IF r.team = NaN THEN InvalidSyntax ELSE StoreError))

\* initializeEmptyStatistics: one of the three upserts of Promise.all reaches
\* the store; its error, if any, is not looked at
InitializeEmpty(s) ==
    /\ req[s].pc = "init"
    /\ \E t \in req[s].todo :
         LET r == [req[s] EXCEPT !.todo = req[s].todo \ {t}]
             key == <<r.team, r.regional>>
         IN \/ /\ ApplyUpsert(t, key, WithTimestamp(EmptyPayload(t), r.ts))
               /\ UNCHANGED failures
               /\ IF r.todo = {} THEN StatsEnds(s, r, TRUE, "")
                  ELSE /\ req' = [req EXCEPT ![s] = r]
                       /\ UNCHANGED <<runs, synced>>
            \/ /\ failures < MaxFailures
               /\ failures' = failures + 1
               /\ UNCHANGED <<aggregates, matches>>
               /\ IF r.todo = {}
                  THEN StatsEnds(s, [r EXCEPT !.storeFailed = TRUE], TRUE, "")
                  ELSE /\ req' = [req EXCEPT ![s] = [r EXCEPT !.storeFailed = TRUE]]
                       /\ UNCHANGED <<runs, synced>>
    /\ UNCHANGED <<teams, teamSeq, matchSeq, team_statistics, now, started,
                   elsewhere>>

\* history: the upserts a run has issued, in order, each with its outcome
Issued(r, tableName, ok) == Append(r.upserts, [table |-> tableName, ok |-> ok])

\* updateTeamStatsPercentage
UpdatePercentage(s) ==
    /\ req[s].pc = "upPct"
    /\ LET r == req[s]
           stats == calculateStatsFromMatches(r.snap, Cardinality(r.snap))
           payload == WithTimestamp(PercentagePayload(stats.percentages), now)
       IN \/ /\ NumericFits(payload)
             /\ ApplyUpsert("team_stats_percentage", <<r.team, r.regional>>, payload)
             /\ req' = [req EXCEPT ![s] = [r EXCEPT !.pc = "upFrac", !.wrote = 1,
                   !.upserts = Issued(r, "team_stats_percentage", TRUE)]]
             /\ UNCHANGED <<failures, runs, synced>>
          \/ /\ ~NumericFits(payload) \/ failures < MaxFailures
             /\ failures' = IF NumericFits(payload) THEN failures + 1 ELSE failures
             /\ UNCHANGED <<aggregates, matches>>
             /\ StatsEnds(s, [r EXCEPT !.storeFailed = TRUE,
                      !.upserts = Issued(r, "team_stats_percentage", FALSE)], FALSE,
                          "Error updating percentages: " \o StoreError)
    /\ UNCHANGED <<teams, teamSeq, matchSeq, team_statistics, now, started,
                   elsewhere>>

\* this mutant does not look at the error of the fractions upsert
UpdateFractionUnchecked(s) ==
    /\ req[s].pc = "upFrac"
    /\ LET r == req[s]
           stats == calculateStatsFromMatches(r.snap, Cardinality(r.snap))
       IN \/ /\ ApplyUpsert("team_stats_fraction", <<r.team, r.regional>>,
                            WithTimestamp(stats.fractions, now))
             /\ req' = [req EXCEPT ![s] = [r EXCEPT !.pc = "upRank", !.wrote = 2,
                   !.upserts = Issued(r, "team_stats_fraction", TRUE)]]
             /\ UNCHANGED failures
          \/ /\ failures < MaxFailures
             /\ failures' = failures + 1
             /\ UNCHANGED <<aggregates, matches>>
             /\ req' = [req EXCEPT ![s] = [r EXCEPT !.pc = "upRank",
                   !.storeFailed = TRUE,
                   !.upserts = Issued(r, "team_stats_fraction", FALSE)]]
    /\ UNCHANGED <<teams, teamSeq, matchSeq, team_statistics, now, started,
                   elsewhere, runs, synced>>

\* updateTeamStatsFraction
UpdateFraction(s) ==
    /\ req[s].pc = "upFrac"
    /\ LET r == req[s]
           stats == calculateStatsFromMatches(r.snap, Cardinality(r.snap))
       IN \/ /\ ApplyUpsert("team_stats_fraction", <<r.team, r.regional>>,
                            WithTimestamp(stats.fractions, now))
             /\ req' = [req EXCEPT ![s] = [r EXCEPT !.pc = "upRank", !.wrote = 2,
                   !.upserts = Issued(r, "team_stats_fraction", TRUE)]]
             /\ UNCHANGED <<failures, runs, synced>>
          \/ /\ failures < MaxFailures
             /\ failures' = failures + 1
             /\ UNCHANGED <<aggregates, matches>>
             /\ StatsEnds(s, [r EXCEPT !.storeFailed = TRUE,
                      !.upserts = Issued(r, "team_stats_fraction", FALSE)], FALSE,
                          "Error updating fractions: " \o StoreError)
    /\ UNCHANGED <<teams, teamSeq, matchSeq, team_statistics, now, started,
                   elsewhere>>

\* updateTeamRankings, after which calculateTeamStatistics returns
UpdateRankings(s) ==
    /\ req[s].pc = "upRank"
    /\ LET r == req[s]
           totalMatches == Cardinality(r.snap)
           stats == calculateStatsFromMatches(r.snap, totalMatches)
       IN \/ /\ ApplyUpsert("team_rankings", <<r.team, r.regional>>,
                   WithTimestamp(RankingPayload(stats.scores, totalMatches), now))
             /\ UNCHANGED failures
             /\ StatsEnds(s, [r EXCEPT !.wrote = 3,
                      !.upserts = Issued(r, "team_rankings", TRUE)], TRUE, "")
          \/ /\ failures < MaxFailures
             /\ failures' = failures + 1
             /\ UNCHANGED <<aggregates, matches>>
             /\ StatsEnds(s, [r EXCEPT !.storeFailed = TRUE,
                      !.upserts = Issued(r, "team_rankings", FALSE)], FALSE,
                          "Error updating rankings: " \o StoreError)
    /\ UNCHANGED <<teams, teamSeq, matchSeq, team_statistics, now, started,
                   elsewhere>>

\* this mutant of the map keeps the rank column as it is stored
rankedDataAsStored(data) == data

\* data.map((team, index) => ({ ...team, overall_rank: index + 1 }))
rankedData(data) ==
    [i \in 1..Len(data) |-> [data[i] EXCEPT !.overall_rank = i]]

\* the rows of team_rankings under a regional, each with its key columns
RankingRows(regionalId) ==
    {[f \in {"team_id", "regional_id"} \cup DOMAIN team_rankings[k] |->
         IF f = "team_id" THEN k[1]
         ELSE IF f = "regional_id" THEN k[2] ELSE team_rankings[k][f]] :
       k \in {x \in DOMAIN team_rankings : x[2] = regionalId}}

\* .order('overall_score', { ascending: false }): the orders in which the store
\* may return the rows; the order of rows of equal score is not specified
OrderedByScore(rows) ==
    {data \in [1..Cardinality(rows) -> rows] :
        /\ \A i, j \in DOMAIN data : i # j => data[i] # data[j]
        /\ \A i, j \in DOMAIN data :
             i < j => data[i].overall_score >= data[j].overall_score}

\* a request that reads only arrives: it takes the free slot of lowest number
ArrivesToRead(s) ==
    /\ ~InFlight(s)
    /\ \A o \in Slots : o < s => InFlight(o)
    /\ serial => \A o \in Slots : ~InFlight(o)
    /\ UNCHANGED <<started, elsewhere, now>>

\* GET /regional/:regionalId/rankings is received (regionalId is not parsed);
\* the history keeps the answer to the request just before when it was the
\* same request, the store not having changed since
StartRankings(s, regionalId) ==
    /\ ArrivesToRead(s)
    /\ req' = [req EXCEPT ![s] = [Idle EXCEPT !.kind = "rankings",
                  !.pc = "rank", !.regional = regionalId,
                  !.before = IF /\ serial
                                /\ req[s].kind = "rankings"
                                /\ req[s].regional = regionalId
                                /\ req[s].response.status = 200
                             THEN req[s].response.data ELSE <<>>]]
    /\ UNCHANGED <<recordTables, aggregates, team_statistics, failures,
                   runs, synced>>

\* rankings: the ordered query of team_rankings, the map, and the response
RankingsQuery(s) ==
    /\ req[s].pc = "rank"
    /\ LET r == [req[s] EXCEPT !.queried = Append(req[s].queried, "team_rankings")]
       IN \/ /\ r.regional # NaN
             /\ \E data \in OrderedByScore(RankingRows(r.regional)) :
                  req' = [req EXCEPT ![s] = [r EXCEPT !.pc = "done",
                             !.response = [status |-> 200, success |-> TRUE,
                                           data |-> rankedData(data)]]]
             /\ UNCHANGED failures
          \/ /\ r.regional = NaN \/ failures < MaxFailures
             /\ failures' = IF r.regional = NaN THEN failures ELSE failures + 1
             /\ req' = [req EXCEPT ![s] = [r EXCEPT !.pc = "done",
                   !.storeFailed = TRUE,
                   !.response = ErrorResponse("Database error: "
                       \o (IF r.regional = NaN THEN InvalidSyntax
                           ELSE StoreError))]]
    /\ UNCHANGED <<recordTables, aggregates, team_statistics, now, started, elsewhere,
                   runs, synced>>

(***************************************************************************)
(* routes/matches: POST, PUT and DELETE of a match, and the route file's   *)
(* own calculateTeamStatistics helper (the auto/taxi_rate statistic)       *)
(***************************************************************************)
\* the partial bodies of the PUT requests
PutBodies == {[auto_m1 |-> 1], [regional |-> 2]}

\* the POST requests: team number, regional, match number and body
PostRequests ==
    {<<1, 1, 1, BodyQuiet>>, <<2, 1, 1, BodyBusy>>, <<1, 2, 1, BodyQuiet>>,
     <<1, 1, 1, BodyInvalid>>}

\* matchSchema.validate(body).error: the limits of the keys a body carries
JoiError(body) ==
    IF \E f \in DOMAIN body :
          \/ f = "endgame_trap_count" /\ (body[f] < 0 \/ body[f] > 3)
          \/ f = "driver_rating" /\ (body[f] < 1 \/ body[f] > 5)
          \/ f = "starting_position" /\ body[f] \notin {"Amp", "Middle", "Source"}
          \/ f = "endgame_climb"
             /\ body[f] \notin {"Nothing", "Park", "Single Climb",
                                "Double Climb", "Triple Climb"}
          \/ f \in {"auto_m1", "auto_m2", "auto_m3", "auto_m4", "auto_m5",
                    "auto_s1", "auto_s2", "auto_s3", "auto_r",
                    "teleop_amp_attempts", "teleop_amp_scored",
                    "teleop_speaker_attempts", "teleop_speaker_scored",
                    "teleop_ground_intake", "teleop_source_intake"}
             /\ body[f] < 0
          \/ f = "match_number" /\ body[f] < 1
    THEN "validation failed" ELSE ""

ValidationResponse(msg) == [status |-> 400, success |-> FALSE, message |-> msg]

NotFoundResponse == [status |-> 404, success |-> FALSE, message |-> "Match not found"]

\* the cast of a number to NUMERIC(10,4): ten-thousandths, rounded half up
ToNumeric4(q) == (20000 * q[1] + q[2]) \div (2 * q[2])

\* the other requests see the match write: their snapshots are outdated
OthersOutdated(s, r, keys) ==
    [o \in Slots |-> IF o = s THEN r ELSE Outdated(req[o], keys)]

\* POST /api/matches is received and validated; base is the request as the
\* middleware before the route handed it on
StartPost(s, base, teamNumber, regional, matchNumber, body) ==
    /\ Arrives(s)
    /\ req' = [req EXCEPT ![s] =
          IF JoiError(body) # ""
          THEN [base EXCEPT !.kind = "post", !.pc = "done",
                            !.response = ValidationResponse(JoiError(body))]
          ELSE [base EXCEPT !.kind = "post", !.pc = "pTeam",
                            !.teamNumber = teamNumber, !.regional = regional,
                            !.matchNumber = matchNumber,
                            !.value = JoiValidate(body)]]
    /\ UNCHANGED <<recordTables, aggregates, team_statistics, failures,
                   runs, synced>>

\* POST: the team lookup; its error is not looked at (no data: not found)
PostTeamLookup(s) ==
    /\ req[s].pc = "pTeam"
    /\ LET r == req[s]
           found == {t \in teams : t.team_number = r.teamNumber
                                   /\ t.regional = r.regional}
       IN \/ /\ req' = [req EXCEPT ![s] =
                   IF found # {}
                   THEN [r EXCEPT !.pc = "pInsert",
                                  !.team = (CHOOSE t \in found : TRUE).id]
                   ELSE [r EXCEPT !.pc = "pTeamInsert"]]
             /\ UNCHANGED failures
          \/ /\ failures < MaxFailures
             /\ failures' = failures + 1
             /\ req' = [req EXCEPT ![s] = [r EXCEPT !.pc = "pTeamInsert",
                                                    !.storeFailed = TRUE]]
    /\ UNCHANGED <<recordTables, aggregates, team_statistics, now, started, elsewhere,
                   runs, synced>>

\* POST: the team is created; team_number is UNIQUE
PostTeamInsert(s) ==
    /\ req[s].pc = "pTeamInsert"
    /\ LET r == req[s]
       IN \/ /\ teamSeq' = teamSeq + 1
             /\ IF \E t \in teams : t.team_number = r.teamNumber
                THEN /\ teams' = teams
                     /\ req' = [req EXCEPT ![s] = [r EXCEPT !.pc = "done",
                           !.response = ErrorResponse(
                               "Error creating team: duplicate key")]]
                ELSE /\ teams' = teams \cup {[id |-> teamSeq + 1,
                                              team_number |-> r.teamNumber,
                                              regional |-> r.regional]}
                     /\ req' = [req EXCEPT ![s] = [r EXCEPT !.pc = "pInsert",
                                                            !.team = teamSeq + 1]]
             /\ UNCHANGED failures
          \/ /\ failures < MaxFailures
             /\ failures' = failures + 1
             /\ UNCHANGED <<teams, teamSeq>>
             /\ req' = [req EXCEPT ![s] = [r EXCEPT !.pc = "done",
                   !.storeFailed = TRUE,
                   !.response = ErrorResponse(
                       "Error creating team: " \o StoreError)]]
    /\ UNCHANGED <<matches, matchSeq, aggregates, team_statistics, now,
                   started, elsewhere, runs, synced>>

\* POST: the match row is inserted, then the helper is called
PostInsert(s) ==
    /\ req[s].pc = "pInsert"
    /\ LET r == req[s]
           key == <<r.team, r.regional>>
       IN \/ /\ matchSeq' = matchSeq + 1
             /\ matches' = matches \cup
                   {InsertMatchRow(matchSeq + 1, r.team, r.regional,
                                   r.matchNumber, r.value, now)}
             /\ req' = OthersOutdated(s, [r EXCEPT !.pc = "hQuery",
                          !.matchId = matchSeq + 1, !.changed = {key},
                          !.aggregated = {key}], {key})
             /\ MatchSetChanged({key})
             /\ UNCHANGED failures
          \/ /\ failures < MaxFailures
             /\ failures' = failures + 1
             /\ UNCHANGED <<matches, matchSeq, runs, synced>>
             /\ req' = [req EXCEPT ![s] = [r EXCEPT !.pc = "done",
                   !.storeFailed = TRUE,
                   !.response = ErrorResponse(
                       "Error creating match: " \o StoreError)]]
    /\ UNCHANGED <<teams, teamSeq, aggregates, team_statistics, now, started, elsewhere>>

\* PUT /api/matches/:id is received and validated against the forked schema
StartPut(s, base, id, body) ==
    /\ Arrives(s)
    /\ req' = [req EXCEPT ![s] =
          IF JoiError(body) # ""
          THEN [base EXCEPT !.kind = "put", !.pc = "done",
                            !.response = ValidationResponse(JoiError(body))]
          ELSE [base EXCEPT !.kind = "put", !.pc = "uUpdate", !.matchId = id,
                            !.value = JoiValidate(body),
                            !.supplied = DOMAIN body]]
    /\ UNCHANGED <<recordTables, aggregates, team_statistics, failures,
                   runs, synced>>

\* .update({ ...value, updated_at }): the payload's columns replace the row's
UpdateMatchRow(row, value, ts) ==
    [f \in DOMAIN row |->
        IF f = "updated_at" THEN ts
        ELSE IF f \in DOMAIN value THEN value[f] ELSE row[f]]

\* PUT: the update by id (.single()), then the helper on the updated row
PutUpdate(s) ==
    /\ req[s].pc = "uUpdate"
    /\ LET r == req[s]
           hit == {m \in matches : m.id = r.matchId}
       IN \/ /\ hit = {}
             /\ req' = [req EXCEPT ![s] = [r EXCEPT !.pc = "done",
                                                    !.response = NotFoundResponse]]
             /\ UNCHANGED <<matches, failures, runs, synced>>
          \/ /\ hit # {}
             /\ LET old == CHOOSE m \in hit : TRUE
                    data == UpdateMatchRow(old, r.value, now)
                    keys == {<<old.team_id, old.regional>>,
                             <<data.team_id, data.regional>>}
                IN /\ matches' = (matches \ {old}) \cup {data}
                   /\ req' = OthersOutdated(s, [r EXCEPT !.pc = "hQuery",
                                !.team = data.team_id, !.regional = data.regional,
                                !.changed = keys, !.prior = old,
                                !.aggregated = {<<data.team_id, data.regional>>}],
                                keys)
                   /\ MatchSetChanged(keys)
             /\ UNCHANGED failures
          \/ /\ failures < MaxFailures
             /\ failures' = failures + 1
             /\ UNCHANGED <<matches, runs, synced>>
             /\ req' = [req EXCEPT ![s] = [r EXCEPT !.pc = "done",
                   !.storeFailed = TRUE,
                   !.response = ErrorResponse("Database error: " \o StoreError)]]
    /\ UNCHANGED <<teams, teamSeq, matchSeq, aggregates, team_statistics, now,
                   started, elsewhere>>

\* DELETE /api/matches/:id is received
StartDelete(s, base, id) ==
    /\ Arrives(s)
    /\ req' = [req EXCEPT ![s] =
                  [base EXCEPT !.kind = "delete", !.pc = "dSelect", !.matchId = id]]
    /\ UNCHANGED <<recordTables, aggregates, team_statistics, failures,
                   runs, synced>>

\* DELETE: the match is read first; no data (or an error) answers 404
DeleteSelect(s) ==
    /\ req[s].pc = "dSelect"
    /\ LET r == req[s]
           hit == {m \in matches : m.id = r.matchId}
       IN \/ /\ req' = [req EXCEPT ![s] =
                   IF hit = {}
                   THEN [r EXCEPT !.pc = "done", !.response = NotFoundResponse]
                   ELSE [r EXCEPT !.pc = "dDelete",
                                  !.team = (CHOOSE m \in hit : TRUE).team_id,
                                  !.regional = (CHOOSE m \in hit : TRUE).regional]]
             /\ UNCHANGED failures
          \/ /\ failures < MaxFailures
             /\ failures' = failures + 1
             /\ req' = [req EXCEPT ![s] = [r EXCEPT !.pc = "done",
                   !.storeFailed = TRUE, !.response = NotFoundResponse]]
    /\ UNCHANGED <<recordTables, aggregates, team_statistics, now, started, elsewhere,
                   runs, synced>>

\* DELETE: the row is deleted, then the helper is called
DeleteMatch(s) ==
    /\ req[s].pc = "dDelete"
    /\ LET r == req[s]
           key == <<r.team, r.regional>>
           hit == {m \in matches : m.id = r.matchId}
           keys == IF hit = {} THEN {} ELSE {key}
       IN \/ /\ matches' = matches \ hit
             /\ req' = OthersOutdated(s, [r EXCEPT !.pc = "hQuery",
                          !.changed = keys, !.aggregated = {key}], keys)
             /\ MatchSetChanged(keys)
             /\ UNCHANGED failures
          \/ /\ failures < MaxFailures
             /\ failures' = failures + 1
             /\ UNCHANGED <<matches, runs, synced>>
             /\ req' = [req EXCEPT ![s] = [r EXCEPT !.pc = "done",
                   !.storeFailed = TRUE,
                   !.response = ErrorResponse("Database error: " \o StoreError)]]
    /\ UNCHANGED <<teams, teamSeq, matchSeq, aggregates, team_statistics, now,
                   started, elsewhere>>

\* the response of the match route once its helper has returned
RouteResponse(kind) ==
    IF kind = "post"
    THEN [status |-> 201, success |-> TRUE, message |-> "Match created successfully"]
    ELSE IF kind = "put"
    THEN [status |-> 200, success |-> TRUE, message |-> "Match updated successfully"]
    ELSE [status |-> 200, success |-> TRUE, message |-> "Match deleted successfully"]

\* this mutant lets the failure of the helper's query fail the request
HelperQueryThrowing(s) ==
    /\ req[s].pc = "hQuery"
    /\ LET r == req[s]
           ms == PairMatches(matches, r.team, r.regional)
       IN \/ /\ req' = [req EXCEPT ![s] =
                   IF ms = {}
                   THEN [r EXCEPT !.pc = "done", !.response = RouteResponse(r.kind)]
                   ELSE [r EXCEPT !.pc = "hUpsert", !.snap = ms]]
             /\ UNCHANGED failures
          \/ /\ failures < MaxFailures
             /\ failures' = failures + 1
             /\ req' = [req EXCEPT ![s] = [r EXCEPT !.pc = "done",
                   !.storeFailed = TRUE,
                   !.response = ErrorResponse("Database error: " \o StoreError)]]
    /\ UNCHANGED <<recordTables, aggregates, team_statistics, now, started, elsewhere,
                   runs, synced>>

\* helper: the match query; no data (or an error) makes it return at once
HelperQuery(s) ==
    /\ req[s].pc = "hQuery"
    /\ LET r == req[s]
           ms == PairMatches(matches, r.team, r.regional)
       IN \/ /\ req' = [req EXCEPT ![s] =
                   IF ms = {}
                   THEN [r EXCEPT !.pc = "done", !.response = RouteResponse(r.kind)]
                   ELSE [r EXCEPT !.pc = "hUpsert", !.snap = ms]]
             /\ UNCHANGED failures
          \/ /\ failures < MaxFailures
             /\ failures' = failures + 1
             /\ req' = [req EXCEPT ![s] = [r EXCEPT !.pc = "done",
                   !.storeFailed = TRUE, !.response = RouteResponse(r.kind)]]
    /\ UNCHANGED <<recordTables, aggregates, team_statistics, now, started, elsewhere,
                   runs, synced>>

\* the auto/taxi_rate row the helper computes from its matches
TaxiRateRow(ms, ts) ==
    LET totalMatches == Cardinality(ms)
        taxi == Cardinality({m \in ms : m.auto_taxi})
    IN [stat_value |-> ToNumeric4(TimesHundred(taxi, totalMatches)),
        stat_fraction |-> Fraction(taxi, totalMatches),
        total_matches |-> totalMatches, last_calculated |-> ts]

\* upsert(row) with no onConflict: the conflict target is the primary key, which
\* the payload does not carry, so the row is inserted; the insert is refused when
\* UNIQUE(team_id, regional, stat_category, stat_name) already holds a row
InsertStatistic(table, key, row) ==
    IF key \in DOMAIN table THEN table ELSE Put(table, key, row)

\* helper: the statistic is stored (its error is not looked at), and the
\* route responds
HelperUpsert(s) ==
    /\ req[s].pc = "hUpsert"
    /\ LET r == req[s]
       IN \/ /\ team_statistics' = InsertStatistic(team_statistics,
                    <<r.team, r.regional>>, TaxiRateRow(r.snap, now))
             /\ req' = [req EXCEPT ![s] = [r EXCEPT !.pc = "done",
                                           !.response = RouteResponse(r.kind)]]
             /\ UNCHANGED failures
          \/ /\ failures < MaxFailures
             /\ failures' = failures + 1
             /\ UNCHANGED team_statistics
             /\ req' = [req EXCEPT ![s] = [r EXCEPT !.pc = "done",
                   !.storeFailed = TRUE, !.response = RouteResponse(r.kind)]]
    /\ UNCHANGED <<recordTables, aggregates, now, started, elsewhere, runs, synced>>

(***************************************************************************)
(* routes/tba: POST /admin/import-event-full                               *)
(***************************************************************************)
\* score_breakdown of an alliance as The Blue Alliance reports it; a key the
\* breakdown lacks (undefined) is 0 or ""
BreakdownRed ==
    [autoLeavePoints |-> 2, autoAmpNoteCount |-> 3, autoSpeakerNoteCount |-> 6,
     teleopAmpNoteCount |-> 3, teleopSpeakerNoteCount |-> 9, trapNoteCount |-> 3,
     endGameRobot1 |-> "Onstage", endGameRobot2 |-> "Parked",
     endGameRobot3 |-> "None"]

BreakdownNone ==
    [autoLeavePoints |-> 0, autoAmpNoteCount |-> 0, autoSpeakerNoteCount |-> 0,
     teleopAmpNoteCount |-> 0, teleopSpeakerNoteCount |-> 0, trapNoteCount |-> 0,
     endGameRobot1 |-> "", endGameRobot2 |-> "", endGameRobot3 |-> ""]

\* the event fetched from The Blue Alliance: its teams, and one entry per
\* team of each alliance of its matches
TbaTeams == <<1, 2>>
TbaEntries ==
    <<[team_number |-> 1, match_number |-> 1, breakdown |-> BreakdownRed],
      [team_number |-> 2, match_number |-> 1, breakdown |-> BreakdownNone]>>

mapTBAEndgameToSchema(sb) ==
    LET robots == <<sb.endGameRobot1, sb.endGameRobot2, sb.endGameRobot3>>
        onstageCount == Cardinality({i \in 1..3 : robots[i] = "Onstage"})
        parkedCount == Cardinality({i \in 1..3 : robots[i] = "Parked"})
    IN IF \A i \in 1..3 : robots[i] = "" THEN "Nothing"
       ELSE IF onstageCount = 3 THEN "Triple Climb"
       ELSE IF onstageCount = 2 THEN "Double Climb"
       ELSE IF onstageCount = 1 THEN "Single Climb"
       ELSE IF parkedCount > 0 THEN "Park" ELSE "Nothing"

\* the columns of the matchRecord built from an alliance's breakdown
TbaMatchValue(sb) ==
    [auto_taxi |-> sb.autoLeavePoints > 0,
     auto_m1 |-> sb.autoAmpNoteCount \div 3,
     auto_s1 |-> sb.autoSpeakerNoteCount \div 3,
     teleop_amp_attempts |-> (sb.teleopAmpNoteCount \div 3) + 2,
     teleop_amp_scored |-> sb.teleopAmpNoteCount \div 3,
     teleop_speaker_attempts |-> (sb.teleopSpeakerNoteCount \div 3) + 3,
     teleop_speaker_scored |-> sb.teleopSpeakerNoteCount \div 3,
     endgame_climb |-> mapTBAEndgameToSchema(sb),
     endgame_trap_count |-> sb.trapNoteCount \div 3,
     driver_rating |-> 3, robot_disabled |-> FALSE, played_defense |-> FALSE]

ImportResponse == [status |-> 200, success |-> TRUE]

\* POST /admin/import-event-full is received with eventKey and regional
StartImport(s, regional) ==
    /\ Arrives(s)
    /\ req' = [req EXCEPT ![s] =
                  [Idle EXCEPT !.kind = "import", !.pc = "iTeams",
                               !.regional = regional]]
    /\ UNCHANGED <<recordTables, aggregates, team_statistics, failures,
                   runs, synced>>

RECURSIVE UpsertTeams(_, _, _, _)
\* upsert(teamRecords, { onConflict: 'team_number' }): every proposed row draws
\* an id from the sequence; a row whose team_number exists updates it instead
UpsertTeams(table, seq, numbers, regional) ==
    IF numbers = <<>> THEN table
    ELSE LET n == Head(numbers)
             old == {t \in table : t.team_number = n}
             row == IF old = {}
                    THEN [id |-> seq + 1, team_number |-> n, regional |-> regional]
                    ELSE [(CHOOSE t \in old : TRUE) EXCEPT !.regional = regional]
         IN UpsertTeams((table \ old) \cup {row}, seq + 1, Tail(numbers), regional)

\* import step 1: the teams of the event are upserted; an error ends the import
ImportTeams(s) ==
    /\ req[s].pc = "iTeams"
    /\ LET r == req[s]
       IN \/ /\ teams' = UpsertTeams(teams, teamSeq, TbaTeams, r.regional)
             /\ teamSeq' = teamSeq + Len(TbaTeams)
             /\ req' = [req EXCEPT ![s] = [r EXCEPT !.pc = "iLookup", !.idx = 1]]
             /\ UNCHANGED failures
          \/ /\ failures < MaxFailures
             /\ failures' = failures + 1
             /\ UNCHANGED <<teams, teamSeq>>
             /\ req' = [req EXCEPT ![s] = [r EXCEPT !.pc = "done",
                   !.storeFailed = TRUE, !.response = ErrorResponse(StoreError)]]
    /\ UNCHANGED <<matches, matchSeq, aggregates, team_statistics, now,
                   started, elsewhere, runs, synced>>

\* after one team key of an alliance: the next one, or the bulk insert, or
\* the response when no record was built
NextEntry(r) ==
    IF r.idx < Len(TbaEntries) THEN [r EXCEPT !.idx = r.idx + 1]
    ELSE IF r.results # <<>> THEN [r EXCEPT !.pc = "iInsert"]
    ELSE [r EXCEPT !.pc = "done", !.response = ImportResponse]

\* import step 3: the team_id of one team key is looked up; a team that is not
\* found (or a failed lookup) is logged and skipped
ImportLookup(s) ==
    /\ req[s].pc = "iLookup"
    /\ LET r == req[s]
           e == TbaEntries[r.idx]
           found == {t \in teams : t.team_number = e.team_number
                                   /\ t.regional = r.regional}
       IN \/ /\ req' = [req EXCEPT ![s] =
                   IF found = {} THEN NextEntry(r)
                   ELSE NextEntry([r EXCEPT !.results = Append(r.results,
                            [team_id |-> (CHOOSE t \in found : TRUE).id,
                             match_number |-> e.match_number,
                             value |-> TbaMatchValue(e.breakdown)])])]
             /\ UNCHANGED failures
          \/ /\ failures < MaxFailures
             /\ failures' = failures + 1
             /\ req' = [req EXCEPT ![s] = NextEntry([r EXCEPT !.storeFailed = TRUE])]
    /\ UNCHANGED <<recordTables, aggregates, team_statistics, now, started, elsewhere,
                   runs, synced>>

\* the rows of the bulk insert, with the ids the sequence hands out
ImportRows(records, seq, regional, ts) ==
    {InsertMatchRow(seq + i, records[i].team_id, regional,
                    records[i].match_number, records[i].value, ts) :
        i \in 1..Len(records)}

\* CHECK (endgame_trap_count >= 0 AND endgame_trap_count <= 3)
TrapCheck(row) == row.endgame_trap_count >= 0 /\ row.endgame_trap_count <= 3

\* import step 4: the bulk insert; its error is logged and the import
\* responds with success either way
ImportInsert(s) ==
    /\ req[s].pc = "iInsert"
    /\ LET r == req[s]
           rows == ImportRows(r.results, matchSeq, r.regional, now)
           keys == {<<m.team_id, m.regional>> : m \in rows}
       IN \/ /\ \A m \in rows : TrapCheck(m)
             /\ matches' = matches \cup rows
             /\ matchSeq' = matchSeq + Len(r.results)
             /\ req' = OthersOutdated(s, [r EXCEPT !.pc = "done",
                          !.changed = keys, !.response = ImportResponse], keys)
             /\ MatchSetChanged(keys)
             /\ UNCHANGED failures
          \/ /\ (\E m \in rows : ~TrapCheck(m)) \/ failures < MaxFailures
             /\ failures' = IF \A m \in rows : TrapCheck(m)
                            THEN failures + 1 ELSE failures
             /\ UNCHANGED <<matches, matchSeq, runs, synced>>
             /\ req' = [req EXCEPT ![s] = [r EXCEPT !.pc = "done",
                   !.storeFailed = TRUE, !.response = ImportResponse]]
    /\ UNCHANGED <<teams, teamSeq, aggregates, team_statistics, now, started, elsewhere>>

(***************************************************************************)
(* The season routes: POST / (create) and PUT /:year/activate              *)
(***************************************************************************)
\* the years the requests name: the seeded season and the two after it
SeasonYears == {2025, 2026, 2027}

\* the bodies of the create requests: a new season, the seeded season again,
\* and a body without season_name
SeasonBodies ==
    {[season_year |-> 2026, season_name |-> "2026 TBD"],
     [season_year |-> 2025, season_name |-> "2025 Crescendo"],
     [season_year |-> 2026]}

SeasonNotFound ==
    [status |-> 404, success |-> FALSE, message |-> "Season not found"]

\* the frame of a step of a season route
SeasonFrame ==
    UNCHANGED <<recordTables, aggregates, team_statistics, now, started,
                serial, env, runs, synced>>

\* POST / is received: season_year and season_name are required
StartCreateSeason(s, body) ==
    /\ Arrives(s)
    /\ req' = [req EXCEPT ![s] =
          IF "season_year" \notin DOMAIN body \/ "season_name" \notin DOMAIN body
          THEN [Idle EXCEPT !.kind = "createSeason", !.pc = "done",
                   !.response = ValidationResponse(
                       "season_year and season_name are required")]
          ELSE [Idle EXCEPT !.kind = "createSeason", !.pc = "sInsert",
                            !.year = body.season_year]]
    /\ UNCHANGED <<recordTables, aggregates, team_statistics, failures,
                   runs, synced>>

\* create: the insert, with is_active false; season_year is UNIQUE
InsertSeason(s) ==
    /\ req[s].pc = "sInsert"
    /\ LET r == req[s]
       IN \/ /\ UNCHANGED failures
             /\ IF r.year \in DOMAIN seasons
                THEN /\ UNCHANGED seasons
                     /\ req' = [req EXCEPT ![s] = [r EXCEPT !.pc = "done",
                           !.response = [status |-> 409, success |-> FALSE,
                                         message |-> "Season already exists"]]]
                ELSE /\ seasons' = Put(seasons, r.year, [is_active |-> FALSE])
                     /\ req' = [req EXCEPT ![s] = [r EXCEPT !.pc = "done",
                           !.response = [status |-> 201, success |-> TRUE,
                               message |-> "Season created successfully"]]]
          \/ /\ failures < MaxFailures
             /\ failures' = failures + 1
             /\ UNCHANGED seasons
             /\ req' = [req EXCEPT ![s] = [r EXCEPT !.pc = "done",
                   !.storeFailed = TRUE,
                   !.response = ErrorResponse("Database error: " \o StoreError)]]
    /\ SeasonFrame

\* PUT /:year/activate is received; the history keeps the seasons as they
\* are stored when it arrives
StartActivate(s, year) ==
    /\ Arrives(s)
    /\ req' = [req EXCEPT ![s] = [Idle EXCEPT !.kind = "activate",
                  !.pc = "aDeactivate", !.year = year, !.stored = seasons]]
    /\ UNCHANGED <<recordTables, aggregates, team_statistics, failures,
                   runs, synced>>

\* .update({ is_active: false }).neq('season_year', year)
DeactivatedOthers(table, year) ==
    [y \in DOMAIN table |->
        IF y # year THEN [table[y] EXCEPT !.is_active = FALSE] ELSE table[y]]

\* activate: every other season is deactivated; an error is thrown
DeactivateOthers(s) ==
    /\ req[s].pc = "aDeactivate"
    /\ LET r == req[s]
       IN \/ /\ seasons' = DeactivatedOthers(seasons, r.year)
             /\ req' = [req EXCEPT ![s] = [r EXCEPT !.pc = "aActivate"]]
             /\ UNCHANGED failures
          \/ /\ failures < MaxFailures
             /\ failures' = failures + 1
             /\ UNCHANGED seasons
             /\ req' = [req EXCEPT ![s] = [r EXCEPT !.pc = "done",
                   !.storeFailed = TRUE,
                   !.response = ErrorResponse("Database error: " \o StoreError)]]
    /\ SeasonFrame

\* activate: .update({ is_active: true }).eq('season_year', year).select()
\* .single(); no row (PGRST116) answers 404, another error is thrown
ActivateSeason(s) ==
    /\ req[s].pc = "aActivate"
    /\ LET r == req[s]
       IN \/ /\ UNCHANGED failures
             /\ IF r.year \in DOMAIN seasons
                THEN /\ seasons' = [seasons EXCEPT ![r.year].is_active = TRUE]
                     /\ req' = [req EXCEPT ![s] = [r EXCEPT !.pc = "done",
                           !.response = [status |-> 200, success |-> TRUE,
                               data |-> [season_year |-> r.year,
                                         is_active |-> TRUE]]]]
                ELSE /\ UNCHANGED seasons
                     /\ req' = [req EXCEPT ![s] = [r EXCEPT !.pc = "done",
                                                    !.response = SeasonNotFound]]
          \/ /\ failures < MaxFailures
             /\ failures' = failures + 1
             /\ UNCHANGED seasons
             /\ req' = [req EXCEPT ![s] = [r EXCEPT !.pc = "done",
                   !.storeFailed = TRUE,
                   !.response = ErrorResponse("Database error: " \o StoreError)]]
    /\ SeasonFrame

\* the store of the season routes when the server starts: the seeded season
InitSeasons ==
    /\ teams = {[id |-> 1, team_number |-> 1, regional |-> 1]}
    /\ teamSeq = 1
    /\ matches = {}
    /\ matchSeq = 1
    /\ team_stats_percentage = <<>>
    /\ team_stats_fraction = <<>>
    /\ team_rankings = <<>>
    /\ team_statistics = <<>>
    /\ now = 0
    /\ req = [s \in Slots |-> Idle]
    /\ failures = 0
    /\ started = 0
    /\ InitDeployed
    /\ runs = <<>>
    /\ synced = {}

InitSeasonsSerial == InitSeasons /\ serial = TRUE

InitSeasonsConcurrent == InitSeasons /\ serial = FALSE

NextSeasons ==
    \E s \in Slots :
        \/ \E b \in SeasonBodies : StartCreateSeason(s, b)
        \/ \E y \in SeasonYears : StartActivate(s, y)
        \/ InsertSeason(s)
        \/ DeactivateOthers(s)
        \/ ActivateSeason(s)

\* the season requests served one at a time
SpecSeasons == InitSeasonsSerial /\ [][NextSeasons]_vars

\* the season requests served as they arrive, their store operations interleaved
SpecSeasonsConcurrent == InitSeasonsConcurrent /\ [][NextSeasons]_vars

(***************************************************************************)
(* The system                                                              *)
(***************************************************************************)
\* the ids the requests name: every id the matches sequence has handed out
MatchIdsAsked == 1..matchSeq

Arrival(s) ==
    \/ \E t \in {x.id : x \in teams} \cup {NaN}, r \in Regionals :
          StartCalculate(s, t, r)
    \/ \E r \in Regionals : StartCalculateAll(s, r)
    \/ \E r \in Regionals \cup {NaN} : StartRankings(s, r)
    \/ \E p \in PostRequests : StartPost(s, Idle, p[1], p[2], p[3], p[4])
    \/ \E id \in MatchIdsAsked, b \in PutBodies : StartPut(s, Idle, id, b)
    \/ \E id \in MatchIdsAsked : StartDelete(s, Idle, id)
    \/ \E r \in Regionals : StartImport(s, r)

StoreStep(s) ==
    \/ ListTeams(s)
    \/ RankingsQuery(s)
    \/ QueryMatches(s)
    \/ InitializeEmpty(s)
    \/ UpdatePercentage(s)
    \/ UpdateFraction(s)
    \/ UpdateRankings(s)
    \/ PostTeamLookup(s)
    \/ PostTeamInsert(s)
    \/ PostInsert(s)
    \/ PutUpdate(s)
    \/ DeleteSelect(s)
    \/ DeleteMatch(s)
    \/ HelperQuery(s)
    \/ HelperUpsert(s)
    \/ ImportTeams(s)
    \/ ImportLookup(s)
    \/ ImportInsert(s)

Next == \E s \in Slots : Arrival(s) \/ StoreStep(s)

\* the requests are served one at a time
Spec == Init /\ [][Next]_vars

\* recomputes and match writes are served as they arrive, their store
\* operations interleaved
ConcurrentArrival(s) ==
    \/ \E r \in Regionals : StartCalculate(s, 1, r)
    \/ StartPost(s, Idle, 1, 1, 1, BodyQuiet)
    \/ \E id \in MatchIdsAsked : StartDelete(s, Idle, id)

ConcurrentStep(s) ==
    \/ QueryMatches(s)
    \/ InitializeEmpty(s)
    \/ UpdatePercentage(s)
    \/ UpdateFraction(s)
    \/ UpdateRankings(s)
    \/ PostTeamLookup(s)
    \/ PostTeamInsert(s)
    \/ PostInsert(s)
    \/ DeleteSelect(s)
    \/ DeleteMatch(s)
    \/ HelperQuery(s)
    \/ HelperUpsert(s)

NextConcurrent == \E s \in Slots : ConcurrentArrival(s) \/ ConcurrentStep(s)

SpecConcurrent == InitConcurrent /\ [][NextConcurrent]_vars

(***************************************************************************)
(* The requests to /api/matches as the server receives them: the key check *)
(* is mounted before the routes of the path                                *)
(***************************************************************************)
\* the keys a client sends: none, the configured one or another, in either
\* header, with and without the Bearer scheme
RequestHeaders ==
    {NoHeaders,
     [NoHeaders EXCEPT !.xApiKey = ConfiguredKey],
     [NoHeaders EXCEPT !.xApiKey = "guess"],
     [NoHeaders EXCEPT !.authorization = <<"Bearer ", ConfiguredKey>>],
     [NoHeaders EXCEPT !.authorization = <<"Bearer ", "guess">>],
     [NoHeaders EXCEPT !.authorization = <<ConfiguredKey>>],
     [NoHeaders EXCEPT !.authorization = <<"Bearer ">>],
     [xApiKey |-> "guess", authorization |-> <<"Bearer ", ConfiguredKey>>]}

\* GET /api/matches/:id is received
StartGetMatch(s, base, id) ==
    /\ Arrives(s)
    /\ req' = [req EXCEPT ![s] =
                  [base EXCEPT !.kind = "get", !.pc = "gSelect", !.matchId = id]]
    /\ UNCHANGED <<recordTables, aggregates, team_statistics, failures,
                   runs, synced>>

\* GET /api/matches/:id: the row is read with .single(); no row answers 404,
\* another error is thrown
GetMatch(s) ==
    /\ req[s].pc = "gSelect"
    /\ LET r == req[s]
           hit == {m \in matches : m.id = r.matchId}
       IN \/ /\ req' = [req EXCEPT ![s] =
                   IF hit = {}
                   THEN [r EXCEPT !.pc = "done", !.response = NotFoundResponse]
                   ELSE [r EXCEPT !.pc = "done",
                            !.response = [status |-> 200, success |-> TRUE,
                                          data |-> CHOOSE m \in hit : TRUE]]]
             /\ UNCHANGED failures
          \/ /\ failures < MaxFailures
             /\ failures' = failures + 1
             /\ req' = [req EXCEPT ![s] = [r EXCEPT !.pc = "done",
                   !.storeFailed = TRUE,
                   !.response = ErrorResponse("Database error: " \o StoreError)]]
    /\ UNCHANGED <<recordTables, aggregates, team_statistics, now, started,
                   elsewhere, runs, synced>>

\* a request to /api/matches is received: validateApiKeyForWrites answers it,
\* or hands it on to the route of its method; no route takes a PATCH, which
\* notFound and errorHandler answer
Gated(s, method, headers) ==
    LET answer == validateApiKeyForWrites(method, headers, env)
        base == [Idle EXCEPT !.method = method, !.headers = headers]
    IN IF answer # NoResponse
       THEN /\ Arrives(s)
            /\ req' = [req EXCEPT ![s] = [base EXCEPT !.kind = "rejected",
                                             !.pc = "done", !.response = answer]]
            /\ UNCHANGED <<recordTables, aggregates, team_statistics, failures,
                           runs, synced>>
       ELSE CASE method = "GET" ->
                   \E id \in MatchIdsAsked : StartGetMatch(s, base, id)
              [] method = "POST" ->
                   \E b \in {BodyQuiet, BodyInvalid} : StartPost(s, base, 1, 1, 1, b)
              [] method = "PUT" ->
                   \E id \in MatchIdsAsked : StartPut(s, base, id, [auto_m1 |-> 1])
              [] method = "DELETE" ->
                   \E id \in MatchIdsAsked : StartDelete(s, base, id)
              [] OTHER ->
                   /\ Arrives(s)
                   /\ req' = [req EXCEPT ![s] = [base EXCEPT !.kind = "notFound",
                         !.pc = "done",
                         !.response = [status |-> 404, success |-> FALSE,
                                       message |-> "Route not found"]]]
                   /\ UNCHANGED <<recordTables, aggregates, team_statistics,
                                  failures, runs, synced>>

\* the server with its key configured, and the server started without one
InitGate ==
    /\ InitStore
    /\ serial = TRUE
    /\ env \in {"", ConfiguredKey}
    /\ seasons = SeedSeasons

NextGate ==
    \E s \in Slots :
        \/ \E m \in {"GET", "POST", "PUT", "DELETE", "PATCH"},
              h \in RequestHeaders : Gated(s, m, h)
        \/ GetMatch(s)
        \/ PostTeamLookup(s)
        \/ PostTeamInsert(s)
        \/ PostInsert(s)
        \/ PutUpdate(s)
        \/ DeleteSelect(s)
        \/ DeleteMatch(s)
        \/ HelperQuery(s)
        \/ HelperUpsert(s)

SpecGate == InitGate /\ [][NextGate]_vars

(***************************************************************************)
(* The fold over match sets of every composition: recomputes of a pair     *)
(* whose matches are drawn from the observations below                     *)
(***************************************************************************)
\* what a match may record for the start position, the end state and the trap
\* count (a key the body does not carry leaves the column NULL)
FoldBodies ==
    <<[starting_position |-> "Amp", endgame_climb |-> "Nothing",
       endgame_trap_count |-> 0],
      [starting_position |-> "Middle", endgame_climb |-> "Park",
       endgame_trap_count |-> 1],
      [starting_position |-> "Source", endgame_climb |-> "Single Climb",
       endgame_trap_count |-> 2],
      [endgame_climb |-> "Double Climb", endgame_trap_count |-> 3],
      [starting_position |-> "Amp", endgame_trap_count |-> 1],
      [starting_position |-> "Source", endgame_climb |-> "Triple Climb"]>>

\* the compositions of a match set of n matches: which observation each match
\* records (the matches taken in the order of their observations)
FoldCompositions(n) ==
    {c \in [1..n -> DOMAIN FoldBodies] : \A i, j \in 1..n : i < j => c[i] <= c[j]}

\* the store holds n matches of team 1 in regional 1 and no aggregate row
InitFold ==
    /\ teams = {[id |-> 1, team_number |-> 1, regional |-> 1]}
    /\ teamSeq = 1
    /\ \E n \in 0..MaxFoldMatches : \E c \in FoldCompositions(n) :
          /\ matches = {InsertMatchRow(i, 1, 1, i, JoiValidate(FoldBodies[c[i]]), 0) :
                           i \in 1..n}
          /\ matchSeq = n
    /\ team_stats_percentage = <<>>
    /\ team_stats_fraction = <<>>
    /\ team_rankings = <<>>
    /\ team_statistics = <<>>
    /\ now = 0
    /\ req = [s \in Slots |-> Idle]
    /\ failures = 0
    /\ started = 0
    /\ serial = TRUE
    /\ InitDeployed
    /\ runs = <<>>
    /\ synced = {}

NextFold ==
    \E s \in Slots :
        \/ StartCalculate(s, 1, 1)
        \/ QueryMatches(s)
        \/ InitializeEmpty(s)
        \/ UpdatePercentage(s)
        \/ UpdateFraction(s)
        \/ UpdateRankings(s)

SpecFold == InitFold /\ [][NextFold]_vars

(***************************************************************************)
(* Properties of the aggregator and of the routes that write matches       *)
(***************************************************************************)
Quiescent == \A s \in Slots : ~InFlight(s)

Range(seq) == {seq[i] : i \in 1..Len(seq)}

\* the latest finished recompute of a pair since its match set last changed
LastRun(p) == runs[p][Len(runs[p])]

\* the rows (without timestamps) that one uninterrupted recompute over the
\* match set ms stores for a pair that has no rows yet
RecomputedRows(ms) ==
    LET stats == calculateStatsFromMatches(ms, Cardinality(ms))
        Stored(defaults, payload) ==
            StripTimestamp(UpsertRow(NoRow, defaults, WithTimestamp(payload, 0)))
    IN IF ms = {}
       THEN [percentage |-> Stored(PercentageDefaults,
                                   EmptyPayload("team_stats_percentage")),
             fraction |-> Stored(FractionDefaults,
                                 EmptyPayload("team_stats_fraction")),
             ranking |-> Stored(RankingDefaults, EmptyPayload("team_rankings"))]
       ELSE [percentage |-> Stored(PercentageDefaults,
                                   PercentagePayload(stats.percentages)),
             fraction |-> Stored(FractionDefaults, stats.fractions),
             ranking |-> Stored(RankingDefaults,
                                RankingPayload(stats.scores, Cardinality(ms)))]

\* the zero-state of the three rows: every percentage 0, every fraction "0/0"
\* (and every total 0), every score 0, matches_played 0
IsZeroState(rows) ==
    /\ rows.percentage = StripTimestamp(PercentageDefaults)
    /\ rows.fraction = StripTimestamp(FractionDefaults)
    /\ IsRow(rows.ranking)
    /\ rows.ranking.overall_score = 0 /\ rows.ranking.auto_score = 0
    /\ rows.ranking.teleop_score = 0 /\ rows.ranking.endgame_score = 0
    /\ rows.ranking.matches_played = 0

PhaseAPositions ==
    {"auto_m1", "auto_m2", "auto_m3", "auto_m4", "auto_m5",
     "auto_s1", "auto_s2", "auto_s3", "auto_r"}

\* the percentage columns that are neither an accuracy ratio nor the rating
\* average
BoundedPercentColumns ==
    (DOMAIN PercentageDefaults)
    \ {"teleop_amp_percent", "teleop_speaker_percent",
       "postgame_driver_rating_avg", "last_calculated"}

\* C1: after a recompute that completed (every store operation of it having
\* succeeded) for a pair whose match set is empty, the pair's three rows exist
\* and hold the zero-state, whatever the rows held before.
C1_EmptyRecomputeYieldsZeroState ==
    \A p \in DOMAIN runs :
        (/\ runs[p] # <<>>
         /\ LastRun(p).ok /\ LastRun(p).empty /\ ~LastRun(p).silent)
        => IsZeroState(LastRun(p).rows)

\* C2: two consecutive recomputes of a pair that both report success, with no
\* match write between them, leave the pair's three rows identical except for
\* last_calculated.
C2_ConsecutiveRecomputesAgree ==
    \A p \in DOMAIN runs :
        (Len(runs[p]) = 2 /\ runs[p][1].ok /\ runs[p][2].ok)
        => runs[p][1].rows = runs[p][2].rows

\* C3: a request that wrote match records (POST, PUT, DELETE, bulk import) has,
\* when it completes, triggered the re-aggregation of every pair whose match
\* set it changed.
C3_WritesTriggerReaggregation ==
    \A s \in Slots :
        (req[s].pc = "done" /\ req[s].changed # {})
        => req[s].changed \subseteq req[s].aggregated

\* C4: under interleaved requests, once no request is in flight and a recompute
\* of the pair that read the latest match set has completed successfully, the
\* pair's rows equal the aggregation of that match set (stated here for the
\* behaviours in which no store operation failed and for the pairs whose latest
\* match set is not empty).
C4_EventuallyConsistent ==
    (Quiescent /\ failures = 0) =>
        \A p \in synced :
            LET ms == PairMatches(matches, p[1], p[2])
            IN ms # {} =>
                 RowsOf(team_stats_percentage, team_stats_fraction,
                        team_rankings, p) = RecomputedRows(ms)

\* C5: calculate-all, once it has the list of the regional's teams, attempts
\* each team exactly once in order, goes on past a team whose recompute threw,
\* and answers 200 with one entry per team: status error with the message for
\* a team whose recompute threw, status success for the others.
C5_ReportPerTeam ==
    \A s \in Slots :
        LET r == req[s]
        IN (r.kind = "calculateAll" /\ r.pc = "done" /\ r.teams # <<>>)
           => /\ r.attempts = team_regional_participation[r.regional]
              /\ r.response.status = 200
              /\ Len(r.response.results) = Len(r.attempts)
              /\ \A i \in 1..Len(r.attempts) :
                   LET e == r.response.results[i]
                       thrown == {f \in Range(r.threw) :
                                     f.team_id = r.attempts[i]}
                   IN /\ e.team_id = r.attempts[i]
                      /\ IF thrown = {}
                         THEN e.status = "success" /\ "error" \notin DOMAIN e
                         ELSE /\ e.status = "error"
                              /\ \A f \in thrown : e.error = f.error

\* C5 witness: a report of two teams, the first failed and the second succeeded
C5_Witness ==
    \E s \in Slots :
        /\ req[s].kind = "calculateAll" /\ req[s].pc = "done"
        /\ req[s].response.status = 200
        /\ Len(req[s].response.results) = 2
        /\ req[s].response.results[1].status = "error"
        /\ req[s].response.results[2].status = "success"

\* C6: calculate-all never answers with a propagated error, whichever store
\* operation of the batch failed (the query listing the teams included): it
\* answers 200 with the per-team report.
C6_BatchNeverHardFails ==
    \A s \in Slots :
        (req[s].kind = "calculateAll" /\ req[s].pc = "done")
        => req[s].response.status = 200

\* C7: a recompute in which a store operation failed (the match query or one of
\* the three upserts, in either branch) does not report success to its caller.
C7_StoreFailurePropagates ==
    \A s \in Slots :
        (req[s].kind = "calculate" /\ req[s].pc = "done" /\ req[s].storeFailed)
        => req[s].response.status # 200

\* C8: when a recompute failed after one or two of its three upserts and the
\* next recompute of the pair succeeds with no match write in between, the
\* pair's rows equal what one uninterrupted recompute writes.
C8_SelfHealsAfterPartialFailure ==
    \A p \in DOMAIN runs :
        (/\ Len(runs[p]) = 2
         /\ ~runs[p][1].ok /\ runs[p][1].wrote \in {1, 2}
         /\ runs[p][2].ok)
        => runs[p][2].rows = RecomputedRows(PairMatches(matches, p[1], p[2]))

\* C8 witness: a partial failure that left the rows different from what the
\* successful recompute after it stored
C8_Witness ==
    \E p \in DOMAIN runs :
        /\ Len(runs[p]) = 2
        /\ ~runs[p][1].ok /\ runs[p][1].wrote \in {1, 2}
        /\ runs[p][2].ok
        /\ runs[p][1].rows # runs[p][2].rows

\* C9: for a non-empty match set, the percentage a successful recompute stores
\* for each phase-A position is min(100 * sum / total_matches, 100), in
\* hundredths, and never exceeds 100.
C9_PhaseAPercentClamped ==
    \A p \in DOMAIN runs :
        (runs[p] # <<>> /\ LastRun(p).ok /\ ~LastRun(p).empty)
        => LET ms == PairMatches(matches, p[1], p[2])
               t == Cardinality(ms)
               row == LastRun(p).rows.percentage
           IN \A pos \in PhaseAPositions :
                LET sum == SumOf(ms, pos)
                    written == row[pos \o "_percent"]
                IN /\ written = IF sum >= t THEN 10000
                                ELSE (20000 * sum + t) \div (2 * t)
                   /\ written <= 10000

\* C9 witness: over two matches, auto_m1 summed to more than the matches and
\* was stored as 100, and auto_s1 summed to one and was stored as 50
C9_Witness ==
    \E p \in DOMAIN runs :
        /\ runs[p] # <<>> /\ LastRun(p).ok /\ ~LastRun(p).empty
        /\ LET ms == PairMatches(matches, p[1], p[2])
           IN /\ Cardinality(ms) = 2
              /\ SumOf(ms, "auto_m1") > 2
              /\ SumOf(ms, "auto_s1") = 1
        /\ LastRun(p).rows.percentage.auto_m1_percent = 10000
        /\ LastRun(p).rows.percentage.auto_s1_percent = 5000

\* C10: after a successful recompute, every percentage column other than the
\* two accuracy ratios and the rating average lies in [0, 100] (hundredths:
\* 0..10000).
C10_PercentagesWithinRange ==
    \A p \in DOMAIN runs :
        (runs[p] # <<>> /\ LastRun(p).ok /\ IsRow(LastRun(p).rows.percentage))
        => \A f \in BoundedPercentColumns :
             /\ LastRun(p).rows.percentage[f] >= 0
             /\ LastRun(p).rows.percentage[f] <= 10000

\* the two phase-B accuracy categories: the columns of their counters and of
\* their stored percentage and fraction
AccuracyCategories ==
    {[attempts |-> "teleop_amp_attempts", scored |-> "teleop_amp_scored",
      percent |-> "teleop_amp_percent", fraction |-> "teleop_amp_fraction"],
     [attempts |-> "teleop_speaker_attempts", scored |-> "teleop_speaker_scored",
      percent |-> "teleop_speaker_percent",
      fraction |-> "teleop_speaker_fraction"]}

\* C11: for a match set whose summed attempts of an accuracy category are
\* above 0, a successful recompute stores 100 * scored / attempts as the
\* percentage (hundredths, not clamped) and "scored/attempts" as the fraction.
C11_AccuracyRatioUnclamped ==
    \A p \in DOMAIN runs :
        (runs[p] # <<>> /\ LastRun(p).ok /\ ~LastRun(p).empty)
        => LET ms == PairMatches(matches, p[1], p[2])
           IN \A c \in AccuracyCategories :
                LET attempts == SumOf(ms, c.attempts)
                    scored == SumOf(ms, c.scored)
                IN attempts > 0 =>
                     /\ LastRun(p).rows.percentage[c.percent]
                          = (20000 * scored + attempts) \div (2 * attempts)
                     /\ LastRun(p).rows.fraction[c.fraction]
                          = ToString(scored) \o "/" \o ToString(attempts)

\* C11 witness: speaker accuracy above 100 (2 scored of 1 attempt: 200 and
\* "2/1") beside amp accuracy 50 and "1/2"
C11_Witness ==
    \E p \in DOMAIN runs :
        /\ runs[p] # <<>> /\ LastRun(p).ok /\ ~LastRun(p).empty
        /\ LastRun(p).rows.percentage.teleop_speaker_percent = 20000
        /\ LastRun(p).rows.fraction.teleop_speaker_fraction = "2/1"
        /\ LastRun(p).rows.percentage.teleop_amp_percent = 5000
        /\ LastRun(p).rows.fraction.teleop_amp_fraction = "1/2"

\* C12: for a match set whose summed attempts of an accuracy category are 0,
\* a successful recompute stores percentage 0 and the fraction "0/0", whatever
\* the scored counter is.
C12_ZeroAttemptsAccuracy ==
    \A p \in DOMAIN runs :
        (runs[p] # <<>> /\ LastRun(p).ok /\ ~LastRun(p).empty)
        => LET ms == PairMatches(matches, p[1], p[2])
           IN \A c \in AccuracyCategories :
                SumOf(ms, c.attempts) = 0 =>
                  /\ LastRun(p).rows.percentage[c.percent] = 0
                  /\ LastRun(p).rows.fraction[c.fraction] = "0/0"

\* C13: every row of team_rankings satisfies
\* overall_score = auto_score + teleop_score + endgame_score.
C13_OverallScoreAdditive ==
    \A k \in DOMAIN team_rankings :
        team_rankings[k].overall_score
        = team_rankings[k].auto_score + team_rankings[k].teleop_score
          + team_rankings[k].endgame_score

\* C13 witness: a recompute stored a ranking row whose three component scores
\* are all above 0 (14 + 5 + 8 = 27)
C13_Witness ==
    \E p \in DOMAIN runs :
        /\ runs[p] # <<>> /\ LastRun(p).ok /\ ~LastRun(p).empty
        /\ p \in DOMAIN team_rankings
        /\ team_rankings[p].auto_score = 14
        /\ team_rankings[p].teleop_score = 5
        /\ team_rankings[p].endgame_score = 8
        /\ team_rankings[p].overall_score = 27

RECURSIVE WeightedCount(_, _, _)
\* the matches holding each value from 1 to v in a column, weighted by the value
WeightedCount(ms, f, v) ==
    IF v <= 0 THEN 0
    ELSE v * Cardinality({m \in ms : m[f] = v}) + WeightedCount(ms, f, v - 1)

\* the total of a column over a match set, a NULL counting as 0
FieldTotal(ms, f) ==
    LET values == {m[f] : m \in ms} \cup {0}
    IN WeightedCount(ms, f, CHOOSE v \in values : \A w \in values : w <= v)

\* the counters stored as "counter/total_matches" fractions, by match column
SummedColumns ==
    {"auto_m1", "auto_m2", "auto_m3", "auto_m4", "auto_m5", "auto_s1",
     "auto_s2", "auto_s3", "auto_r", "teleop_ground_intake",
     "teleop_source_intake"}

\* C14: for a non-empty match set, a successful recompute stores
\* matches_played = the number of the pair's match records, every summed
\* counter = the total of its column over those records (NULL counting as 0),
\* and the rating average = rating total / number of records (hundredths).
C14_FoldOverAllMatches ==
    \A p \in DOMAIN runs :
        (runs[p] # <<>> /\ LastRun(p).ok /\ ~LastRun(p).empty)
        => LET ms == PairMatches(matches, p[1], p[2])
               t == Cardinality(ms)
               rows == LastRun(p).rows
           IN /\ rows.ranking.matches_played = t
              /\ rows.fraction.pregame_total = t
              /\ \A f \in SummedColumns :
                   rows.fraction[f \o "_fraction"]
                   = ToString(FieldTotal(ms, f)) \o "/" \o ToString(t)
              /\ rows.fraction.teleop_amp_total
                   = FieldTotal(ms, "teleop_amp_scored")
              /\ rows.fraction.teleop_speaker_total
                   = FieldTotal(ms, "teleop_speaker_scored")
              /\ rows.fraction.teleop_amp_fraction
                   = ToString(FieldTotal(ms, "teleop_amp_scored")) \o "/"
                     \o ToString(FieldTotal(ms, "teleop_amp_attempts"))
              /\ rows.percentage.postgame_driver_rating_avg
                   = (200 * FieldTotal(ms, "driver_rating") + t) \div (2 * t)

\* C14 witness: two matches, one rated 4 and one with no rating: matches_played
\* 2, auto_m1 "3/2", rating average 2.00
C14_Witness ==
    \E p \in DOMAIN runs :
        /\ runs[p] # <<>> /\ LastRun(p).ok /\ ~LastRun(p).empty
        /\ Cardinality(PairMatches(matches, p[1], p[2])) = 2
        /\ \E m \in PairMatches(matches, p[1], p[2]) : m.driver_rating = NullInt
        /\ LastRun(p).rows.ranking.matches_played = 2
        /\ LastRun(p).rows.fraction.auto_m1_fraction = "3/2"
        /\ LastRun(p).rows.percentage.postgame_driver_rating_avg = 200

\* C15: rankings answers with exactly the team_rankings rows of the regional,
\* by non-increasing overall_score, the row at position i carrying rank i.
C15_RankingsDenseByScore ==
    \A s \in Slots :
        LET r == req[s]
        IN (r.kind = "rankings" /\ r.pc = "done" /\ r.response.status = 200)
           => LET data == r.response.data
                  rows == RankingRows(r.regional)
              IN /\ Len(data) = Cardinality(rows)
                 /\ \A row \in rows :
                      \E i \in DOMAIN data :
                         data[i] = [row EXCEPT !.overall_rank = i]
                 /\ \A i \in DOMAIN data : data[i].overall_rank = i
                 /\ \A i \in DOMAIN data :
                      i < Len(data) =>
                        data[i].overall_score >= data[i + 1].overall_score

\* C15 witness: two teams ranked, the first with the higher score
C15_Witness ==
    \E s \in Slots :
        /\ req[s].kind = "rankings" /\ req[s].pc = "done"
        /\ req[s].response.status = 200
        /\ Len(req[s].response.data) = 2
        /\ req[s].response.data[1].overall_score
             > req[s].response.data[2].overall_score
        /\ req[s].response.data[2].overall_rank = 2

\* C16: two rankings calls in a row over unchanged rows answer with the same
\* rank for every team.
C16_RanksRepeatable ==
    \A s \in Slots :
        LET r == req[s]
        IN (/\ r.kind = "rankings" /\ r.pc = "done"
            /\ r.response.status = 200 /\ r.before # <<>>)
           => \A i \in DOMAIN r.before, j \in DOMAIN r.response.data :
                 r.before[i].team_id = r.response.data[j].team_id
                 => r.before[i].overall_rank = r.response.data[j].overall_rank

\* C17: a recompute or rankings request whose team or regional identifier is
\* not a number is answered 400 and issues no query to the store.
C17_InvalidInputRejectedBeforeIO ==
    \A s \in Slots :
        LET r == req[s]
        IN (/\ r.kind \in {"calculate", "rankings"} /\ r.pc = "done"
            /\ (r.team = NaN \/ r.regional = NaN))
           => r.response.status = 400 /\ r.queried = <<>>

\* the slot takes a step of an aggregator request (recompute, recomputeAll or
\* rankings)
AggregatorActs(s) ==
    /\ req[s].kind \in {"calculate", "calculateAll", "rankings"}
    /\ req[s].pc \notin {"idle", "done"}
    /\ req'[s] # req[s]
    /\ req'[s].kind = req[s].kind

\* C18: no step of recompute, recomputeAll or rankings, succeeding or failing,
\* changes the match records.
C18_AggregatorLeavesMatches ==
    [][(\E s \in Slots : AggregatorActs(s)) => matches' = matches]_vars

\* C18 witness: a recompute over a non-empty match set has stored its rows and
\* a recompute of the same pair has failed
C18_Witness ==
    \E p \in DOMAIN runs :
        /\ Len(runs[p]) = 2
        /\ runs[p][1].ok /\ ~runs[p][1].empty
        /\ ~runs[p][2].ok
        /\ PairMatches(matches, p[1], p[2]) # {}

AggregateKeys ==
    DOMAIN team_stats_percentage \cup DOMAIN team_stats_fraction
    \cup DOMAIN team_rankings

\* C19: a step of a recompute of one pair leaves the aggregate rows of every
\* other pair as they are, also while recomputes of other pairs are in flight.
C19_RecomputeWritesOwnPairOnly ==
    [][\A s \in Slots :
          AggregatorActs(s) =>
            \A k \in (AggregateKeys \cup AggregateKeys')
                     \ {<<req[s].team, req[s].regional>>} :
               /\ RowOf(team_stats_percentage', k) = RowOf(team_stats_percentage, k)
               /\ RowOf(team_stats_fraction', k) = RowOf(team_stats_fraction, k)
               /\ RowOf(team_rankings', k) = RowOf(team_rankings, k)]_vars

\* C19 witness: two recomputes of different pairs are in flight together, each
\* having written part of its rows
C19_Witness ==
    \E s1, s2 \in Slots :
        /\ req[s1].kind = "calculate" /\ req[s2].kind = "calculate"
        /\ req[s1].regional # req[s2].regional
        /\ req[s1].pc = "upRank"
        /\ req[s2].pc = "init" /\ Cardinality(req[s2].todo) = 1

\* C20: no two stored match records share (team, regional, match number).
C20_MatchKeyUnique ==
    \A m1, m2 \in matches :
        (/\ m1.team_id = m2.team_id /\ m1.regional = m2.regional
         /\ m1.match_number = m2.match_number)
        => m1 = m2

\* the order in which calculateTeamStatistics issues its upserts
UpsertOrder == <<"team_stats_percentage", "team_stats_fraction", "team_rankings">>

\* C22: a recompute over a non-empty match set issues its upserts in the order
\* percentages, fractions, rankings, each after the one before has been applied:
\* the upserts issued so far are a prefix of that order, and every one but the
\* last has succeeded (after a failed upsert no later one is issued); so a
\* ranking row is written only after the percentages and fractions rows of the
\* same run.
C22_UpsertsInOrder ==
    \A s \in Slots :
        LET u == req[s].upserts
        IN /\ Len(u) <= Len(UpsertOrder)
           /\ \A i \in DOMAIN u :
                /\ u[i].table = UpsertOrder[i]
                /\ i < Len(u) => u[i].ok
           /\ req[s].pc = "upFrac" => Len(u) = 1
           /\ req[s].pc = "upRank" => Len(u) = 2

\* C22 witness: one run has written its three rows, and another has stopped at
\* the failure of its fractions upsert
C22_Witness ==
    /\ \E p \in DOMAIN runs :
          /\ Len(runs[p]) = 2
          /\ runs[p][1].ok /\ runs[p][1].wrote = 3
          /\ ~runs[p][2].ok /\ runs[p][2].wrote = 1
    /\ \E s \in Slots :
          /\ Len(req[s].upserts) = 2
          /\ ~req[s].upserts[2].ok

\* C23: a PUT that updated a match changed only the fields its body supplied
\* (and updated_at); every other stored field of the match keeps the value it
\* had before the update.
C23_PutChangesSuppliedFieldsOnly ==
    \A s \in Slots :
        LET r == req[s]
        IN (r.kind = "put" /\ IsRow(r.prior))
           => \A m \in matches :
                 m.id = r.matchId
                 => \A f \in DOMAIN m \ (r.supplied \cup {"updated_at"}) :
                       m[f] = r.prior[f]

\* the match write of a request is in the store: the inserted or updated row
\* is there, the deleted row is not
WriteCommitted(r) ==
    IF r.kind = "delete" THEN \A m \in matches : m.id # r.matchId
    ELSE \E m \in matches :
            /\ m.id = r.matchId
            /\ \A f \in DOMAIN r.value \cap DOMAIN m : m[f] = r.value[f]

\* C24: a POST, PUT or DELETE whose match write succeeded answers with success
\* (201 for POST, 200 for PUT and DELETE) and leaves the write in the store,
\* whether or not the recalculation after it failed.
C24_StatsFailureKeepsWrite ==
    \A s \in Slots :
        LET r == req[s]
        IN (/\ r.kind \in {"post", "put", "delete"}
            /\ r.pc = "done" /\ r.aggregated # {})
           => /\ r.response = RouteResponse(r.kind)
              /\ r.response.status = (IF r.kind = "post" THEN 201 ELSE 200)
              /\ WriteCommitted(r)

\* C24 witness: a POST answered 201 although its recalculation failed
C24_Witness ==
    \E s \in Slots :
        /\ req[s].kind = "post" /\ req[s].pc = "done"
        /\ req[s].aggregated # {} /\ req[s].storeFailed
        /\ req[s].response.status = 201
        /\ WriteCommitted(req[s])

\* C25: after a successful match create, update or delete (every store
\* operation of the request having succeeded), the auto/taxi_rate row of the
\* pair it recalculated reflects the pair's current match set: the row is there
\* when the pair has matches, and its stat_value, stat_fraction and
\* total_matches are those computed from the current matches (total_matches 0
\* once the last match is deleted).
C25_TaxiRateReflectsMatches ==
    \A s \in Slots :
        LET r == req[s]
        IN (/\ r.kind \in {"post", "put", "delete"}
            /\ r.pc = "done" /\ r.aggregated # {} /\ ~r.storeFailed)
           => \A p \in r.aggregated :
                 LET ms == PairMatches(matches, p[1], p[2])
                     row == RowOf(team_statistics, p)
                     want == TaxiRateRow(ms, 0)
                 IN /\ ms # {} => IsRow(row)
                    /\ IsRow(row) => row.total_matches = Cardinality(ms)
                    /\ (IsRow(row) /\ ms # {}) =>
                          /\ row.stat_value = want.stat_value
                          /\ row.stat_fraction = want.stat_fraction

\* no recompute of the pair is in flight
NoRecomputeInFlight(p) ==
    \A s \in Slots :
        (InFlight(s) /\ req[s].kind \in {"calculate", "calculateAll"})
        => <<req[s].team, req[s].regional>> # p

\* C27: whenever no recompute of a pair is in flight, the pair's aggregate rows
\* derive from one match-set snapshot: the total-matches counts of the fractions
\* row equal matches_played of the ranking row - under every interleaving of
\* recomputes and after a recompute over an empty match set (stated here for
\* the behaviours in which no store operation failed).
C27_RowsFromOneSnapshot ==
    \A p \in DOMAIN team_stats_fraction \cap DOMAIN team_rankings :
        (failures = 0 /\ NoRecomputeInFlight(p))
        => LET f == team_stats_fraction[p]
               t == team_rankings[p].matches_played
           IN /\ f.pregame_total = t
              /\ f.endgame_total = t
              /\ f.postgame_total = t

\* the columns GET .../teams/:teamNumber/stats/rank selects from the view
\* firebase_rankings (team_rankings joined with its team, regional and season)
RankColumns ==
    {"overall_rank", "auto_rank", "teleop_rank", "endgame_rank", "overall_score",
     "auto_score", "teleop_score", "endgame_score", "matches_played"}

\* the answer of GET .../stats/rank for a team of a regional: the stored row
\* (.single()), or 404 when the view has none
StatsRank(teamId, regionalId) ==
    LET row == RowOf(team_rankings, <<teamId, regionalId>>)
    IN IF IsRow(row)
       THEN [status |-> 200, success |-> TRUE,
             data |-> [f \in RankColumns |-> row[f]]]
       ELSE [status |-> 404, success |-> FALSE,
             message |-> "Team ranking not found"]

\* C30: once recompute has run for every team of a regional, the rank the
\* per-team rank endpoint serves for a team (the stored overall_rank) equals the
\* rank the rankings call returns for that team.
C30_RankViewsAgree ==
    \A s \in Slots :
        LET r == req[s]
        IN (/\ r.kind = "rankings" /\ r.pc = "done" /\ r.response.status = 200
            /\ Quiescent
            /\ \A i \in DOMAIN team_regional_participation[r.regional] :
                  <<team_regional_participation[r.regional][i], r.regional>>
                     \in synced)
           => \A i \in DOMAIN r.response.data :
                 LET e == r.response.data[i]
                     served == StatsRank(e.team_id, r.regional)
                 IN /\ served.status = 200
                    /\ served.data.overall_rank = e.overall_rank

\* the percentage columns of each group of mutually exclusive buckets
StartPercents ==
    {"pregame_amp_percent", "pregame_middle_percent", "pregame_source_percent"}
ClimbPercents ==
    {"endgame_nothing_percent", "endgame_park_percent",
     "endgame_single_climb_percent", "endgame_double_climb_percent",
     "endgame_triple_climb_percent"}
TrapPercents ==
    {"endgame_0_trap_percent", "endgame_1_trap_percent",
     "endgame_2_trap_percent", "endgame_3_trap_percent"}

RECURSIVE SumColumns(_, _)
\* the sum of the columns cols of a row
SumColumns(row, cols) ==
    IF cols = {} THEN 0
    ELSE LET f == CHOOSE x \in cols : TRUE
         IN row[f] + SumColumns(row, cols \ {f})

\* the bucket counters of the fold over ms partition its matches
BucketsPartition(ms) ==
    LET c == Counters(ms)
        t == Cardinality(ms)
        starts == c.pregame_amp + c.pregame_middle + c.pregame_source
        climbs == c.climb_nothing + c.climb_park + c.climb_single
                  + c.climb_double + c.climb_triple
        traps == c.trap_zero + c.trap_one + c.trap_two + c.trap_three
    IN /\ traps = t
       /\ climbs <= t
       /\ (\A m \in ms : m.endgame_climb # NullText) => climbs = t
       /\ starts <= t
       /\ (\A m \in ms : m.starting_position # NullText) => starts = t

\* the percentages (in hundredths) of every group of buckets of a stored row
\* sum to at most limit
GroupSumsAtMost(row, limit) ==
    /\ SumColumns(row, StartPercents) <= limit
    /\ SumColumns(row, ClimbPercents) <= limit
    /\ SumColumns(row, TrapPercents) <= limit

\* the pairs with a percentages row stored by a recompute that succeeded over a
\* non-empty match set, no match having been written since
FoldedPairs ==
    {p \in DOMAIN runs :
        /\ runs[p] # <<>>
        /\ LastRun(p).ok /\ ~LastRun(p).empty /\ ~LastRun(p).silent}

\* C28 as stated: the buckets of every folded match set partition its matches,
\* and the percentages of each group sum to at most 100.
C28_BucketsSumToHundred ==
    \A p \in FoldedPairs :
        /\ BucketsPartition(PairMatches(matches, p[1], p[2]))
        /\ GroupSumsAtMost(LastRun(p).rows.percentage, 10000)

\* C28, amended: the four trap-count counters sum to exactly total_matches, the
\* end-state and the start-position counters each to at most total_matches
\* (exactly when every match has the value set); the percentages of each
\* group, stored in hundredths, each rounded on its own, sum to at most
\* 100.02.
C28_BucketsPartitionMatches ==
    /\ \A s \in Slots : BucketsPartition(req[s].snap)
    /\ \A p \in FoldedPairs :
          /\ BucketsPartition(PairMatches(matches, p[1], p[2]))
          /\ GroupSumsAtMost(LastRun(p).rows.percentage, 10002)

\* C28 witness: a recompute has stored the percentages of six matches of which
\* one started at Amp, one at Middle and four at Source
C28_Witness ==
    \E p \in FoldedPairs :
        LET c == Counters(PairMatches(matches, p[1], p[2]))
        IN /\ c.pregame_amp = 1 /\ c.pregame_middle = 1 /\ c.pregame_source = 4
           /\ SumColumns(LastRun(p).rows.percentage, StartPercents) = 10001

ActiveSeasons == {y \in DOMAIN seasons : seasons[y].is_active}

\* C26: whenever no activate request is in flight at most one season is
\* active, and an activate that answered 200 has answered with the season of
\* its year, active - under every interleaving of activate requests.
C26_OneActiveSeason ==
    /\ (\A s \in Slots : req[s].kind = "activate" => ~InFlight(s))
         => Cardinality(ActiveSeasons) <= 1
    /\ \A s \in Slots :
          (req[s].kind = "activate" /\ req[s].pc = "done"
           /\ req[s].response.status = 200)
          => /\ req[s].response.data.season_year = req[s].year
             /\ req[s].response.data.is_active

\* C29: an activate for a year that has no season row (every store operation
\* of it having succeeded) answers 404 'Season not found' and leaves is_active
\* of every season as it was when the request arrived.
C29_FailedActivationHasNoEffect ==
    \A s \in Slots :
        LET r == req[s]
        IN (/\ r.kind = "activate" /\ r.pc = "done"
            /\ r.year \notin DOMAIN r.stored /\ ~r.storeFailed)
           => /\ r.response = SeasonNotFound
              /\ \A y \in DOMAIN r.stored :
                    seasons[y].is_active = r.stored[y].is_active

\* what the key check decided for the request in slot s, by the key it carries
KeyChecked(r) ==
    LET key == ApiKeyOf(r.headers)
        rejectedWith(status) == r.kind = "rejected" /\ r.response.status = status
    IN /\ r.method = "GET" => r.kind = "get"
       /\ r.method # "GET" =>
            /\ r.kind # "rejected" => key = env /\ env # ""
            /\ key = "" => rejectedWith(401)
            /\ key # "" /\ env = "" => rejectedWith(500)
            /\ key # "" /\ env # "" /\ key # env => rejectedWith(401)
       /\ r.kind = "rejected" =>
            [r EXCEPT !.method = "", !.headers = NoHeaders, !.kind = "idle",
                      !.pc = "idle", !.response = NoResponse] = Idle

\* C21: a POST, PUT, DELETE or PATCH request gets past the key check only
\* when the key it carries is the configured 589_API_KEY; with no key it is
\* answered 401, with a key while none is configured 500, with another key
\* 401, and then no handler runs: the request has responded with nothing of a
\* handler in it and the store is as it was. A GET request reaches its
\* handler whatever it carries.
C21_WritesNeedTheKey ==
    [][\A s \in Slots :
          /\ req'[s].method # "" => KeyChecked(req[s])'
          /\ req'[s] # req[s] /\ req'[s].kind = "rejected" =>
                UNCHANGED <<recordTables, aggregates, team_statistics>>]_vars

\* a request with a wrong key has been answered 401 after a request with the
\* configured key inserted a match
C21_Witness ==
    \E s \in Slots :
        /\ req[s].kind = "rejected"
        /\ req[s].method = "DELETE"
        /\ ApiKeyOf(req[s].headers) = "guess"
        /\ req[s].response = UnauthorizedResponse("Invalid API key")
        /\ matchSeq = 2

====
